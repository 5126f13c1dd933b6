--------------------------- MODULE MCAirConditioner ---------------------------
EXTENDS AirConditioner

\* Every mode, the fan at every speed or one of them, and temperatures on either side of
\* every limit, with values no mode or speed has among them.
MCRequests == [power : Bit, mode : 0 .. 4, fan : {0, 5}, temp : {9, 16, 25, 31, 255}]
                \union [power : {2}, mode : {2, 9}, fan : {1, 2, 3, 4, 200}, temp : {17, 33, 96}]
\* Three other setters with one message, one with a few, none with the rest.
MCMaxOptions == [r \in MCRequests |->
                   CASE r.power = 1 /\ r.fan = 5 /\ r.temp = 25 /\ r.mode = kCool -> 3
                     [] r.power = 1 /\ r.fan = 5 /\ r.temp = 25 /\ r.mode # kCool -> 1
                     [] r.fan = 1 -> 2
                     [] OTHER -> 0]
=============================================================================
