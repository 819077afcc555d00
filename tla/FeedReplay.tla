----------------------------- MODULE FeedReplay -----------------------------
(***************************************************************************)
(* ReplayMarketDataFile (feed_replay.hpp, feed_replay.cpp): the statistics *)
(* it returns, as they are built line by line.                             *)
(***************************************************************************)
EXTENDS MarketDataParser

FeedReplayStatus == {"kOk", "kFileOpenFailed", "kParseError"}

FeedReplayResult ==
  [status : FeedReplayStatus, lines_read : Nat, updates_parsed : Nat,
   error_line : Nat, parse_status : ParseStatus]

NewReplay ==
  [status |-> "kFileOpenFailed", lines_read |-> 0, updates_parsed |-> 0,
   error_line |-> 0, parse_status |-> "kOk"]

\* One iteration, around the callback it makes when the line is valid.
ReplayLine(r, line) ==
  LET status == ParseMarketDataLine(line).status
      read   == [r EXCEPT !.lines_read = @ + 1]
  IN  IF status = "kOk" THEN [read EXCEPT !.updates_parsed = @ + 1]
      ELSE [read EXCEPT !.status = "kParseError",
                        !.error_line = read.lines_read,
                        !.parse_status = status]

\* std::getline failed: the end of the file, or an error reading it.
ReplayEnd(r) == [r EXCEPT !.status = "kOk"]

============================================================================
