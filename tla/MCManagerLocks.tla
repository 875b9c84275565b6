--------------------------- MODULE MCManagerLocks ---------------------------
(* Instances of ManagerLocks for TLC.                                      *)
EXTENDS ManagerLocks, TLC

CONSTANTS price, stream, poll, handler, scanner, cleanup, stats

\* a reader of prices, the stream of Polymarket, the scanner and the tasks that
\* clean up and write the statistics line: between them both pairs of requests
AllRuns ==
  price :> {"kalshi_ws_quote"} @@ stream :> {"poly_ws_quote"}
  @@ scanner :> {"add_markets", "coverage"} @@ cleanup :> {"remove_ended", "ws_stats"}

\* the scanner adds markets while the clean-up removes one
ScanAndCleanup == scanner :> {"add_markets"} @@ cleanup :> {"remove_ended"}

\* the statistics line against the quotes of both streams and a reader
QuotesAndStats ==
  price :> {"kalshi_ws_quote"} @@ stream :> {"poly_ws_quote"}
  @@ handler :> {"coverage"} @@ stats :> {"ws_stats"}
=============================================================================
