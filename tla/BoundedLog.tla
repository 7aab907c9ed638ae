----------------------------- MODULE BoundedLog -----------------------------
(***************************************************************************)
(* What the metrics queue promises, without its mutex, its condition       *)
(* variable or its slice: a log of numbered entries of which at most       *)
(* Capacity are readable.  Appending to a full log forgets exactly the     *)
(* oldest readable entry; a reader always takes the oldest readable one.   *)
(***************************************************************************)
EXTENDS Naturals

CONSTANT Capacity   \* the most entries a reader can still take

VARIABLES
  gone,   \* entries 1..gone have been taken or forgotten
  end,    \* entries 1..end have been appended
  taken   \* the entry taken last, 0 before the first

logVars == <<gone, end, taken>>

LogInit == gone = 0 /\ end = 0 /\ taken = 0

AppendEntry ==
  /\ end' = end + 1
  /\ gone' = IF end - gone = Capacity THEN gone + 1 ELSE gone
  /\ UNCHANGED taken

TakeEntry ==
  /\ gone < end
  /\ taken' = gone + 1
  /\ gone' = gone + 1
  /\ UNCHANGED end

LogNext == AppendEntry \/ TakeEntry

LogSpec == LogInit /\ [][LogNext]_logVars
=============================================================================
