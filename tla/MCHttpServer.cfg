SPECIFICATION FairSpec
CONSTANTS
    Frame = {"handle_client", "parse_request", "read_line", "async_read", "async_write"}
    NoFrame = NoFrame
    Symbol = {"sp", "cr", "lf", "GET", "PUT", "/", "v", "/hello"}
    Piece <- MCPiece
    MaxPieces = 3
    Size = 2
    Room = 1
INVARIANTS CallsNest ResponsesMatch
PROPERTIES RequestsAreAnswered HangupCloses
CHECK_DEADLOCK FALSE
