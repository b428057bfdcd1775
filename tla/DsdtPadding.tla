---------------------------- MODULE DsdtPadding ----------------------------
(***************************************************************************)
(* encode_dsdt_with_padding (src/src/acpi/dsdt/mod.rs): pads the DSDT with *)
(* a buffer named QPAD so that its length equals the one the reference     *)
(* firmware has ("compat lengths").                                        *)
(*                                                                         *)
(* The length as a function of the pad has jumps (the first pad byte costs *)
(* a whole Name/Buffer wrapper, and the buffer size and the PkgLength get  *)
(* wider at 2, 63, 256, 4094, 65536 ... bytes), so some targets cannot be  *)
(* met.  The code looks for the pad by bisection and then runs a fix-up    *)
(* loop whose termination is not obvious.  Bodies are represented by their *)
(* lengths: the algorithm looks at nothing else.                           *)
(***************************************************************************)
EXTENDS Dsdt

CONSTANTS
  Bodies,   \* lengths the unpadded DSDT body can have
  Targets   \* values of target_body_len

ASSUME BodiesAssumption  == Bodies \subseteq Nat
ASSUME TargetsAssumption == Targets \subseteq Nat

VARIABLES
  pc,        \* where the function is
  body,      \* encode_dsdt_body(config, 0).len()
  target,    \* target_body_len, None when compat_lengths is off
  low, high, \* the bisection interval
  best,      \* the longest body found that is too short, if any
  candidate  \* the body that will be returned

vars == <<pc, body, target, low, high, best, candidate>>

(* Every call of the function encodes the unpadded body first; `target' is *)
(* an input, from config.target_dsdt_len().                                *)
Init ==
  /\ pc = "start"
  /\ body \in Bodies
  /\ target \in Targets \union {None}
  /\ low = 0
  /\ high = 0
  /\ best = None
  /\ candidate = body

(* The two early returns: no target, or the body is long enough already.   *)
ReturnUnpadded ==
  /\ pc = "start"
  /\ \/ target = None
     \/ target # None /\ body >= target
  /\ candidate' = body
  /\ pc' = "done"
  /\ UNCHANGED <<body, target, low, high, best>>

StartSearch ==
  /\ pc = "start"
  /\ target # None
  /\ body < target
  /\ low' = 0
  /\ high' = target - body
  /\ best' = None
  /\ pc' = "search"
  /\ UNCHANGED <<body, target, candidate>>

Mid == (low + high) \div 2

(* One iteration of `while low <= high' for each outcome of the compare.   *)
ProbeEqual ==
  /\ pc = "search"
  /\ low <= high
  /\ EncodedLen(body, Mid) = target
  /\ candidate' = EncodedLen(body, Mid)
  /\ pc' = "done"
  /\ UNCHANGED <<body, target, low, high, best>>

(* Seeded fault: the neighbour skipped.                                    *)
ProbeLessSkips ==
  /\ pc = "search"
  /\ low <= high
  /\ EncodedLen(body, Mid) < target
  /\ best' = EncodedLen(body, Mid)
  /\ low' = Mid + 2
  /\ UNCHANGED <<pc, body, target, high, candidate>>

ProbeLess ==
  /\ pc = "search"
  /\ low <= high
  /\ EncodedLen(body, Mid) < target
  /\ best' = EncodedLen(body, Mid)
  /\ low' = Mid + 1
  /\ UNCHANGED <<pc, body, target, high, candidate>>

(* Greater: `high = mid - 1', or out of the loop when that would wrap the *)
(* unsigned `high' below zero.                                             *)
ProbeGreater ==
  /\ pc = "search"
  /\ low <= high
  /\ EncodedLen(body, Mid) > target
  /\ IF Mid = 0
       THEN /\ pc' = "exit"
            /\ UNCHANGED high
       ELSE /\ high' = Mid - 1
            /\ UNCHANGED pc
  /\ UNCHANGED <<body, target, low, best, candidate>>

(* The interval is empty.                                                  *)
SearchFails ==
  /\ pc = "search"
  /\ low > high
  /\ pc' = "exit"
  /\ UNCHANGED <<body, target, low, high, best, candidate>>

(* Seeded fault: the fix-up loop left out.                                 *)
TakeBestReturns ==
  /\ pc = "exit"
  /\ candidate' = IF best = None THEN EncodedLen(body, 0) ELSE best
  /\ pc' = "done"
  /\ UNCHANGED <<body, target, low, high, best>>

(* best.unwrap_or_else(|| encode_dsdt_body(config, 0))                     *)
TakeBest ==
  /\ pc = "exit"
  /\ candidate' = IF best = None THEN EncodedLen(body, 0) ELSE best
  /\ pc' = "fixup"
  /\ UNCHANGED <<body, target, low, high, best>>

(* Seeded faults: the fix-up with another pad than `high + missing'.       *)
FixupWith(pad) ==
  /\ pc = "fixup"
  /\ candidate' = IF candidate < target THEN EncodedLen(body, pad)
                                        ELSE candidate
  /\ pc' = IF candidate' >= target THEN "done" ELSE "fixup"
  /\ UNCHANGED <<body, target, low, high, best>>

FixupFromLow     == FixupWith(low + (target - candidate))
FixupFromBody    == FixupWith(high + (target - body))
FixupSamePad     == FixupWith(high)

(* One turn of `while candidate.len() < target_body_len': the loop ends    *)
(* when the target is met, and breaks when it is passed.                   *)
Fixup ==
  /\ pc = "fixup"
  /\ candidate' = IF candidate < target
                    THEN EncodedLen(body, high + (target - candidate))
                    ELSE candidate
  /\ pc' = IF candidate' >= target THEN "done" ELSE "fixup"
  /\ UNCHANGED <<body, target, low, high, best>>

(* The function has returned.                                              *)
Done ==
  /\ pc = "done"
  /\ UNCHANGED vars

Next ==
  \/ ReturnUnpadded \/ StartSearch
  \/ ProbeEqual \/ ProbeLess \/ ProbeGreater \/ SearchFails
  \/ TakeBest \/ Fixup
  \/ Done

Spec == Init /\ [][Next]_vars

(* The function is straight-line code of one thread: it keeps running.     *)
FairSpec == Spec /\ WF_vars(Next)

-----------------------------------------------------------------------------
(***************************************************************************)
(* Properties                                                              *)
(***************************************************************************)

(* The locals of encode_dsdt_with_padding keep their Rust types: lengths   *)
(* and bounds are usize (never negative, so `mid - 1' and `target - body'  *)
(* never wrap), `best' and the target are Options.                         *)
TypeOK ==
  /\ pc \in {"start", "search", "exit", "fixup", "done"}
  /\ body \in Nat
  /\ target \in Nat \union {None}
  /\ low \in Nat
  /\ high \in Nat
  /\ best \in Nat \union {None}
  /\ candidate \in Nat

(* What the padding is for: whenever some pad makes the DSDT exactly as    *)
(* long as the target, the bisection finds one, although the length is not *)
(* a linear function of the pad and the probed pads are few.               *)
ExactWhenReachable ==
  (pc = "done" /\ target # None) =>
    \/ \A pad \in 0 .. target : EncodedLen(body, pad) # target
    \/ candidate = target

(* The bisection and the fix-up compute PaddedLen, the function that the   *)
(* layout of the blob is built on: where the search ended and on which     *)
(* side it came from leaves no trace in the result.                        *)
ReturnsPaddedLen == (pc = "done") => candidate = PaddedLen(body, target)

(* A DSDT with a target is never returned shorter than it: the fix-up loop *)
(* after a failed search makes up for a target that falls into a gap.      *)
NeverShort ==
  (pc = "done" /\ target # None) => candidate >= target

(* A gap costs at most the Name/Buffer wrapper of the pad: the table ends  *)
(* at most nine bytes after the target.                                    *)
OvershootBound ==
  (pc = "done" /\ target # None /\ body < target) => candidate <= target + 9

(* When the search gives up, the two neighbouring pads enclose the target: *)
(* `high' is the largest pad that is too short, `best' its length, and the *)
(* `best.unwrap_or_else' fallback has never to recompute anything else.    *)
SearchBrackets ==
  (pc \in {"exit", "fixup"}) =>
    /\ best = EncodedLen(body, high)
    /\ best < target
    /\ EncodedLen(body, high + 1) > target

(* The fix-up loop does not loop: `high + missing' is computed from the    *)
(* failed search's `high' on every turn, so a first turn that still fell   *)
(* short would recompute the same pad for ever.                            *)
FixupOnce == [][pc = "fixup" => pc' = "done"]_vars

(* Every probe that does not return removes the probed pad from the        *)
(* interval: the bisection cannot spin.                                    *)
SearchShrinks ==
  [][(pc = "search" /\ pc' = "search") => high' - low' < high - low]_vars

(* encode_dsdt_with_padding returns for every body and target.             *)
Termination == <>(pc = "done")

=============================================================================
