SPECIFICATION Spec
CONSTANTS
  AnthropicReplies <- MCAnthropicReplies
  ServerReplies <- MCServerReplies
  MaxLengths = {3, 9}
  MaxRequests = 3
  MaxRounds = 2
INVARIANTS
  WirePaired
  WireComplete
  WireAlternates
