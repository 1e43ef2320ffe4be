SPECIFICATION SvcSpec
CONSTANTS
    wA = wA  wB = wB  k1 = k1  g1 = g1  g2 = g2
    Workspaces = {wA, wB}
    FreeChat = wB
    Conversations = {k1}
    WorkspaceOf <- MCWorkspaceOf
    Runs = {g1, g2}
    ChatOf <- MCChatOf
    MaxRuntimes = 3
    MaxOutages = 0
INVARIANT RunningRunsUnaffected
CHECK_DEADLOCK FALSE
