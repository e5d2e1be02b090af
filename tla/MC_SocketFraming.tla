-------------------------- MODULE MC_SocketFraming --------------------------
EXTENDS SocketFraming

GarbageSizes == {-1, 0, 2}
OneListener == {[steady |-> TRUE, sizes |-> {0, 1, 2, 3, 8}, kinds |-> {"data", "exit"}]}

=============================================================================
