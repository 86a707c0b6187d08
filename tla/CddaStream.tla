----------------------------- MODULE CddaStream -----------------------------
(***************************************************************************)
(* What CDDA playback promises the player, with no thread in sight: one    *)
(* area of the disc is written out chunk by chunk, in order, from a call   *)
(* of play until it is all written or a call of stop.  Once playback is    *)
(* paused or stopped, at most one more chunk comes out; once a stop has    *)
(* returned, none does.                                                    *)
(***************************************************************************)
EXTENDS Naturals

CONSTANT Totals

VARIABLES
  mode,     \* "PLAYING", "PAUSED" or "COMPLETED"
  length,   \* chunks of the area
  written,  \* chunks written so far
  late,     \* one more chunk may come out although mode is not "PLAYING"
  busy      \* an operation of the client is under way

vars == <<mode, length, written, late, busy>>

Init == /\ mode = "COMPLETED" /\ length = 0 /\ written = 0
        /\ late = FALSE /\ busy = FALSE

(* stop, halt, a play on top of a play, and a poll that finds the end. *)
CallStop == /\ ~busy /\ busy' = TRUE
            /\ mode' = "COMPLETED"
            /\ IF mode = "PLAYING" THEN late' \in BOOLEAN
                                   ELSE late' \in {FALSE, late}
            /\ UNCHANGED <<length, written>>

CallPlay == /\ ~busy /\ busy' = TRUE /\ mode = "COMPLETED"
            /\ UNCHANGED <<mode, length, written, late>>

(* All of the stop is over: nothing more comes out. *)
Stopped == /\ busy /\ mode = "COMPLETED" /\ ~late
           /\ length' = 0 /\ busy' \in BOOLEAN
           /\ UNCHANGED <<mode, written, late>>

Start == /\ busy /\ mode = "COMPLETED" /\ ~late
         /\ mode' = "PLAYING" /\ length' \in Totals /\ written' = 0
         /\ UNCHANGED <<late, busy>>

Return == /\ busy /\ ~late /\ busy' = FALSE
          /\ UNCHANGED <<mode, length, written, late>>

Write == /\ written < length
         /\ mode = "PLAYING" \/ late
         /\ written' = written + 1
         /\ late' = FALSE
         /\ UNCHANGED <<mode, length, busy>>

Pause == /\ ~busy /\ mode' = "PAUSED"
         /\ late' \in (IF mode = "PAUSED" THEN {late} ELSE BOOLEAN)
         /\ UNCHANGED <<length, written, busy>>

Resume == /\ ~busy /\ mode' = "PLAYING" /\ late' = FALSE
          /\ UNCHANGED <<length, written, busy>>

(* The end of the area.  Its last chunk may be missing. *)
Finish == /\ mode # "COMPLETED" /\ written + 1 >= length
          /\ mode' = "COMPLETED" /\ late' = FALSE
          /\ UNCHANGED <<length, written, busy>>

(* The late chunk does not come after all. *)
Lapse == /\ late /\ late' = FALSE
         /\ UNCHANGED <<mode, length, written, busy>>

Next == CallStop \/ CallPlay \/ Stopped \/ Start \/ Return \/ Write \/ Pause
          \/ Resume \/ Finish \/ Lapse

Spec == Init /\ [][Next]_vars
=============================================================================
