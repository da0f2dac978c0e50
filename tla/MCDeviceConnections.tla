------------------------ MODULE MCDeviceConnections ------------------------
EXTENDS DeviceConnections, TLC

Symmetry == Permutations(Sockets) \cup Permutations(Devices) \cup Permutations(Calls)
=============================================================================
