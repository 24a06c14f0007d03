SPECIFICATION CdpSpec
CONSTANTS
  Names = {n1, n2, n3}
  ChannelNos = {1, 2, 3}
INVARIANT ChannelIndexInStep
