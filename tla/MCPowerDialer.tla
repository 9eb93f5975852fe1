---------------------------- MODULE MCPowerDialer ----------------------------
EXTENDS PowerDialer, TLC
CONSTANTS l1, l2, l3
MCQueue2 == <<l1, l2>>
MCQueue3 == <<l1, l2, l3>>
CallSymmetry == Permutations(Call)
====
