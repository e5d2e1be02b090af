---------------------------- MODULE MC_CommandIpc ----------------------------
EXTENDS CommandIpc, TLC

CONSTANTS a, b      \* applications

NoFault == {{}}

=============================================================================
