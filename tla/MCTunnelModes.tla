--------------------------- MODULE MCTunnelModes ---------------------------
EXTENDS TunnelModes, TLC

MCSymmetry == Permutations(Adapters) \cup Permutations(Tunnels)

=============================================================================
