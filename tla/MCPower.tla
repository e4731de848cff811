------------------------------ MODULE MCPower ------------------------------
EXTENDS Power

CONSTANTS c1, c2, c3, v1, v2

TwoCores == {c1, c2}
ThreeCores == {c1, c2, c3}
OneVcpu == {v1}
TwoVcpus == {v1, v2}
=============================================================================
