------------------------- MODULE DsdtPaddingProofs -------------------------
(***************************************************************************)
(* Proofs about DsdtPadding, for all bodies and targets.                   *)
(*                                                                         *)
(* Everything rests on three facts about EncodedLen as a function of the   *)
(* pad: it grows at least as fast as the pad, it is strictly monotone, and *)
(* one gap is at most nine bytes wide.  The inductive invariant then says  *)
(* what a bisection must keep: every pad below `low' is too short, every   *)
(* pad above `high' is too long.                                           *)
(***************************************************************************)
EXTENDS DsdtPadding, TLAPS

(* IntLen and PkgLengthLen take their few values, and never get narrower   *)
(* for a longer argument.                                                  *)
LEMMA WidthFacts ==
  ASSUME NEW v \in Nat, NEW w \in Nat, v <= w
  PROVE  /\ IntLen(v) \in {1, 2, 3, 5, 9}
         /\ PkgLengthLen(v) \in {1, 2, 3, 4}
         /\ IntLen(v) <= IntLen(w)
         /\ PkgLengthLen(v) <= PkgLengthLen(w)
<1>1. IntLen(v) \in {1, 2, 3, 5, 9}
  BY DEF IntLen
<1>2. PkgLengthLen(v) \in {1, 2, 3, 4}
  BY DEF PkgLengthLen
<1>3. IntLen(v) <= IntLen(w)
  BY DEF IntLen
<1>4. PkgLengthLen(v) <= PkgLengthLen(w)
  BY DEF PkgLengthLen
<1> QED
  BY <1>1, <1>2, <1>3, <1>4

(* The value of EncodedLen for a pad that is not empty.                    *)
LEMMA EncodedLenValue ==
  ASSUME NEW b \in Nat, NEW p \in Nat, p > 0
  PROVE  EncodedLen(b, p) =
           b + 6 + PkgLengthLen(IntLen(p) + p) + IntLen(p) + p
<1>1. IntLen(p) \in Nat
  BY WidthFacts
<1>2. PkgLengthLen(IntLen(p) + p) \in Nat
  BY <1>1, WidthFacts
<1> QED
  BY <1>1, <1>2 DEF EncodedLen, NameLen, NameSegLen, BufferLen, Block

(* A pad of p bytes makes the body at least p bytes longer.                *)
LEMMA EncodedLenLower ==
  ASSUME NEW b \in Nat, NEW p \in Nat
  PROVE  /\ EncodedLen(b, p) \in Nat
         /\ EncodedLen(b, p) >= b + p
<1>1. CASE p = 0
  BY <1>1 DEF EncodedLen
<1>2. CASE p > 0
  <2>1. IntLen(p) \in Nat
    BY WidthFacts
  <2>2. PkgLengthLen(IntLen(p) + p) \in Nat
    BY <2>1, WidthFacts
  <2> QED
    BY <1>2, <2>1, <2>2, EncodedLenValue
<1> QED
  BY <1>1, <1>2

(* A longer pad always makes a longer body.                                *)
LEMMA EncodedLenMonotone ==
  ASSUME NEW b \in Nat, NEW p \in Nat, NEW q \in Nat, p < q
  PROVE  EncodedLen(b, p) < EncodedLen(b, q)
<1>1. CASE p = 0
  <2>1. EncodedLen(b, q) \in Nat /\ EncodedLen(b, q) >= b + q
    BY EncodedLenLower
  <2>2. EncodedLen(b, p) = b
    BY <1>1 DEF EncodedLen
  <2> QED
    BY <2>1, <2>2
<1>2. CASE p > 0
  <2>1. /\ IntLen(p) \in Nat
        /\ IntLen(q) \in Nat
        /\ IntLen(p) <= IntLen(q)
    BY WidthFacts
  <2>2. /\ PkgLengthLen(IntLen(p) + p) \in Nat
        /\ PkgLengthLen(IntLen(q) + q) \in Nat
        /\ PkgLengthLen(IntLen(p) + p) <= PkgLengthLen(IntLen(q) + q)
    <3>1. IntLen(p) + p \in Nat /\ IntLen(q) + q \in Nat
      BY <2>1
    <3>2. IntLen(p) + p <= IntLen(q) + q
      BY <2>1
    <3> QED
      BY <3>1, <3>2, WidthFacts
  <2> QED
    BY <1>2, <2>1, <2>2, EncodedLenValue
<1> QED
  BY <1>1, <1>2

(* A target between two neighbouring pads is overshot by at most nine      *)
(* bytes when the missing bytes are added to the smaller pad.              *)
LEMMA GapIsSmall ==
  ASSUME NEW b \in Nat, NEW p \in Nat, NEW t \in Nat,
         EncodedLen(b, p) < t, t < EncodedLen(b, p + 1)
  PROVE  EncodedLen(b, p + (t - EncodedLen(b, p))) <= t + 9
<1> DEFINE m == t - EncodedLen(b, p)
<1>1. m \in Nat /\ m > 0 /\ p + m \in Nat /\ p + 1 \in Nat
  <2>1. EncodedLen(b, p) \in Nat
    BY EncodedLenLower
  <2> QED
    BY <2>1
<1>2. CASE p = 0
  <2>1. EncodedLen(b, 0) = b
    BY DEF EncodedLen
  <2>2. EncodedLen(b, 1) = b + 9
    <3>1. IntLen(1) = 1 /\ PkgLengthLen(2) = 1
      BY DEF IntLen, PkgLengthLen
    <3>2. EncodedLen(b, 1) = b + 6 + PkgLengthLen(IntLen(1) + 1) + IntLen(1) + 1
      BY EncodedLenValue
    <3> QED
      BY <3>1, <3>2
  <2>3. m <= 8
    BY <1>2, <2>1, <2>2
  <2>4. EncodedLen(b, m) = b + 6 + PkgLengthLen(IntLen(m) + m) + IntLen(m) + m
    BY <1>1, EncodedLenValue
  <2>5. IntLen(m) \in {1, 2}
    BY <1>1, <2>3 DEF IntLen
  <2>6. PkgLengthLen(IntLen(m) + m) = 1
    BY <1>1, <2>3, <2>5 DEF PkgLengthLen
  <2>7. EncodedLen(b, m) <= b + m + 9
    BY <1>1, <2>4, <2>5, <2>6
  <2> HIDE DEF m
  <2>8. p + m = m
    BY <1>1, <1>2
  <2>9. t = b + m
    BY <1>2, <2>1 DEF m
  <2> QED
    BY <1>1, <2>7, <2>8, <2>9 DEF m
<1>3. CASE p > 0
  <2> DEFINE I(x) == IntLen(x)
             P(x) == PkgLengthLen(IntLen(x) + x)
  <2>1. /\ EncodedLen(b, p) = b + 6 + P(p) + I(p) + p
        /\ EncodedLen(b, p + 1) = b + 6 + P(p + 1) + I(p + 1) + (p + 1)
        /\ EncodedLen(b, p + m) = b + 6 + P(p + m) + I(p + m) + (p + m)
    <3> HIDE DEF m
    <3>1. EncodedLen(b, p) = b + 6 + P(p) + I(p) + p
      BY <1>3, EncodedLenValue
    <3>2. EncodedLen(b, p + 1) = b + 6 + P(p + 1) + I(p + 1) + (p + 1)
      BY <1>1, <1>3, EncodedLenValue
    <3>3. EncodedLen(b, p + m) = b + 6 + P(p + m) + I(p + m) + (p + m)
      BY <1>1, <1>3, EncodedLenValue
    <3> QED
      BY <3>1, <3>2, <3>3
  <2>2. I(p) \in {1, 2, 3, 5, 9} /\ I(p + 1) \in {1, 2, 3, 5, 9} /\ I(p + m) \in {1, 2, 3, 5, 9}
    BY <1>1, WidthFacts
  <2>3. P(p) \in {1, 2, 3, 4} /\ P(p + 1) \in {1, 2, 3, 4} /\ P(p + m) \in {1, 2, 3, 4}
    BY <1>1, <2>2, WidthFacts
  <2>4. I(p + m) <= I(p) + 4
    <3>1. I(p + 1) <= I(p) + 4
      BY <1>3 DEF IntLen
    <3>2. m <= 7
      BY <2>1, <2>2, <2>3, <3>1 DEF m
    <3> QED
      BY <1>1, <1>3, <3>2 DEF IntLen
  <2> QED
    BY <1>1, <2>1, <2>2, <2>3, <2>4
<1> QED
  BY <1>2, <1>3

(* PaddedLen is determined by any pad at which the length passes the       *)
(* target: there is only one.                                              *)
LEMMA PaddedLenValue ==
  ASSUME NEW b \in Nat, NEW t \in Nat, NEW p \in Nat, b < t,
         EncodedLen(b, p) <= t, t < EncodedLen(b, p + 1)
  PROVE  PaddedLen(b, t) = IF EncodedLen(b, p) = t
                             THEN t
                             ELSE EncodedLen(b, p + (t - EncodedLen(b, p)))
<1> DEFINE Passes(q) == EncodedLen(b, q) <= t /\ t < EncodedLen(b, q + 1)
           pad == CHOOSE q \in 0 .. t - b : Passes(q)
<1>1. p \in 0 .. t - b
  <2>1. EncodedLen(b, p) \in Nat /\ EncodedLen(b, p) >= b + p
    BY EncodedLenLower
  <2> QED
    BY <2>1
<1>2. ASSUME NEW q \in Nat, NEW r \in Nat, Passes(q), q < r PROVE ~Passes(r)
  <2>1. q + 1 \in Nat /\ q + 1 <= r
    BY <1>2
  <2>2. EncodedLen(b, q + 1) \in Nat /\ EncodedLen(b, r) \in Nat
    BY <2>1, EncodedLenLower
  <2>3. CASE q + 1 = r
    BY <1>2, <2>2, <2>3
  <2>4. CASE q + 1 < r
    <3>1. EncodedLen(b, q + 1) < EncodedLen(b, r)
      BY <2>1, <2>4, EncodedLenMonotone
    <3> QED
      BY <1>2, <2>2, <3>1
  <2> QED
    BY <2>1, <2>3, <2>4
<1>3. pad \in 0 .. t - b /\ Passes(pad)
  BY <1>1
<1>4. pad = p
  <2> HIDE DEF pad, Passes
  <2>1. Passes(p)
    BY DEF Passes
  <2>2. pad \in Nat
    BY <1>3
  <2> QED
    BY <1>2, <1>3, <2>1, <2>2
<1>5. t # None
  BY NoneAssumption
<1>6. PaddedLen(b, t) = IF EncodedLen(b, pad) = t
                          THEN t
                          ELSE EncodedLen(b, pad + (t - EncodedLen(b, pad)))
  BY <1>5 DEF PaddedLen
<1> QED
  BY <1>4, <1>6

-----------------------------------------------------------------------------
(***************************************************************************)
(* The inductive invariant.                                                *)
(***************************************************************************)

(* While the search runs, no pad above `high' and none below `low' can     *)
(* meet the target.                                                        *)
SearchInv ==
  (pc = "search") =>
    /\ low <= high + 1
    /\ EncodedLen(body, high + 1) > target
    /\ low = 0 => best = None
    /\ low > 0 => best = EncodedLen(body, low - 1) /\ best < target

(* Only a body that is too short is ever padded.                           *)
PadInv ==
  (pc \in {"search", "exit", "fixup"}) => (target # None /\ body < target)

FixupInv == (pc = "fixup") => candidate = best

IInv ==
  /\ TypeOK
  /\ PadInv
  /\ SearchInv
  /\ SearchBrackets
  /\ FixupInv
  /\ ReturnsPaddedLen
  /\ ExactWhenReachable
  /\ NeverShort
  /\ OvershootBound

LEMMA InitIInv == Init => IInv
  BY BodiesAssumption, TargetsAssumption, NoneAssumption
  DEF Init, IInv, TypeOK, PadInv, SearchInv, SearchBrackets, FixupInv,
      ReturnsPaddedLen, ExactWhenReachable, NeverShort, OvershootBound

(* What a probe's outcome says about the pads on its other side.           *)
LEMMA ProbeFacts ==
  ASSUME IInv, pc = "search", low <= high
  PROVE  /\ Mid \in Nat /\ low <= Mid /\ Mid <= high
         /\ EncodedLen(body, Mid) \in Nat
         /\ EncodedLen(body, Mid) > target => Mid > 0
<1>1. low \in Nat /\ high \in Nat /\ body \in Nat
  BY DEF IInv, TypeOK
<1>2. Mid \in Nat /\ low <= Mid /\ Mid <= high
  BY <1>1 DEF Mid
<1>3. EncodedLen(body, Mid) \in Nat
  BY <1>1, <1>2, EncodedLenLower
<1>4. EncodedLen(body, 0) = body
  BY DEF EncodedLen
<1>5. target \in Nat /\ body < target
  BY DEF IInv, TypeOK, PadInv
<1> QED
  BY <1>1, <1>2, <1>3, <1>4, <1>5

LEMMA ReturnUnpaddedIInv == IInv /\ ReturnUnpadded => IInv'
<1> SUFFICES ASSUME IInv, ReturnUnpadded PROVE IInv'
  OBVIOUS
<1>1. TypeOK'
  BY DEF IInv, TypeOK, ReturnUnpadded
<1>2. ExactWhenReachable'
  <2>1. CASE target = None
    BY <2>1 DEF ReturnUnpadded, ExactWhenReachable
  <2>2. CASE target # None /\ body >= target
    <3>1. body \in Nat /\ target \in Nat
      BY <2>2 DEF IInv, TypeOK
    <3>2. CASE body = target
      BY <3>2 DEF ReturnUnpadded, ExactWhenReachable
    <3>3. CASE body > target
      <4>1. ASSUME NEW pad \in 0 .. target PROVE EncodedLen(body, pad) # target
        <5>1. EncodedLen(body, pad) \in Nat /\ EncodedLen(body, pad) >= body + pad
          BY <3>1, EncodedLenLower
        <5> QED
          BY <3>1, <3>3, <5>1
      <4> QED
        BY <4>1 DEF ReturnUnpadded, ExactWhenReachable
    <3> QED
      BY <2>2, <3>1, <3>2, <3>3
  <2> QED
    BY <2>1, <2>2 DEF ReturnUnpadded
<1>3. NeverShort' /\ OvershootBound'
  BY DEF IInv, TypeOK, ReturnUnpadded, NeverShort, OvershootBound
<1>4. ReturnsPaddedLen'
  BY DEF ReturnUnpadded, ReturnsPaddedLen, PaddedLen
<1> QED
  BY <1>1, <1>2, <1>3, <1>4
  DEF IInv, ReturnUnpadded, PadInv, SearchInv, SearchBrackets, FixupInv

LEMMA StartSearchIInv == IInv /\ StartSearch => IInv'
<1> SUFFICES ASSUME IInv, StartSearch PROVE IInv'
  OBVIOUS
<1>1. body \in Nat /\ target \in Nat /\ body < target
  BY DEF IInv, TypeOK, StartSearch
<1>2. TypeOK'
  BY <1>1 DEF IInv, TypeOK, StartSearch
<1>3. SearchInv'
  <2>1. /\ EncodedLen(body, (target - body) + 1) \in Nat
        /\ EncodedLen(body, (target - body) + 1) >= body + ((target - body) + 1)
    <3>1. (target - body) + 1 \in Nat
      BY <1>1
    <3> QED
      BY <1>1, <3>1, EncodedLenLower
  <2> QED
    BY <1>1, <2>1 DEF StartSearch, SearchInv
<1> QED
  BY <1>1, <1>2, <1>3
  DEF IInv, StartSearch, PadInv, SearchBrackets, FixupInv, ReturnsPaddedLen,
      ExactWhenReachable, NeverShort, OvershootBound

LEMMA ProbeEqualIInv == IInv /\ ProbeEqual => IInv'
<1> SUFFICES ASSUME IInv, ProbeEqual PROVE IInv'
  OBVIOUS
<1>1. target \in Nat /\ candidate' = target
  BY DEF IInv, TypeOK, PadInv, ProbeEqual
<1>2. ReturnsPaddedLen'
  <2>1. body \in Nat /\ body < target /\ EncodedLen(body, Mid) = target
    BY DEF IInv, TypeOK, PadInv, ProbeEqual
  <2>2. Mid \in Nat /\ Mid + 1 \in Nat
    BY ProbeFacts DEF ProbeEqual
  <2>3. EncodedLen(body, Mid) < EncodedLen(body, Mid + 1)
    BY <2>1, <2>2, EncodedLenMonotone
  <2>4. PaddedLen(body, target) = target
    BY <1>1, <2>1, <2>2, <2>3, PaddedLenValue
  <2> QED
    BY <1>1, <2>4 DEF ProbeEqual, ReturnsPaddedLen
<1> QED
  BY <1>1, <1>2
  DEF IInv, TypeOK, ProbeEqual, PadInv, SearchInv, SearchBrackets, FixupInv,
      ExactWhenReachable, NeverShort, OvershootBound

LEMMA ProbeLessIInv == IInv /\ ProbeLess => IInv'
<1> SUFFICES ASSUME IInv, ProbeLess PROVE IInv'
  OBVIOUS
<1>1. /\ Mid \in Nat /\ low <= Mid /\ Mid <= high
      /\ EncodedLen(body, Mid) \in Nat
  BY ProbeFacts DEF ProbeLess
<1>2. low' = Mid + 1 /\ low' - 1 = Mid
  BY <1>1 DEF ProbeLess
<1>3. SearchInv'
  BY <1>1, <1>2 DEF IInv, TypeOK, ProbeLess, SearchInv
<1>4. TypeOK'
  BY <1>1, <1>2 DEF IInv, TypeOK, ProbeLess
<1> QED
  BY <1>3, <1>4
  DEF IInv, ProbeLess, PadInv, SearchBrackets, FixupInv, ReturnsPaddedLen,
      ExactWhenReachable, NeverShort, OvershootBound

LEMMA ProbeGreaterIInv == IInv /\ ProbeGreater => IInv'
<1> SUFFICES ASSUME IInv, ProbeGreater PROVE IInv'
  OBVIOUS
<1>1. /\ Mid \in Nat /\ low <= Mid /\ Mid <= high /\ Mid > 0
      /\ EncodedLen(body, Mid) \in Nat
  BY ProbeFacts DEF ProbeGreater
<1>2. high' = Mid - 1 /\ high' + 1 = Mid /\ high' \in Nat /\ pc' = pc
  BY <1>1 DEF ProbeGreater
<1>3. SearchInv'
  BY <1>1, <1>2 DEF IInv, TypeOK, ProbeGreater, SearchInv
<1>4. TypeOK'
  BY <1>2 DEF IInv, TypeOK, ProbeGreater
<1> QED
  BY <1>2, <1>3, <1>4
  DEF IInv, ProbeGreater, PadInv, SearchBrackets, FixupInv, ReturnsPaddedLen,
      ExactWhenReachable, NeverShort, OvershootBound

LEMMA SearchFailsIInv == IInv /\ SearchFails => IInv'
<1> SUFFICES ASSUME IInv, SearchFails PROVE IInv'
  OBVIOUS
<1>1. low = high + 1 /\ low > 0 /\ low - 1 = high
  BY DEF IInv, TypeOK, SearchInv, SearchFails
<1>2. SearchBrackets'
  BY <1>1 DEF IInv, SearchInv, SearchFails, SearchBrackets
<1>3. TypeOK'
  BY DEF IInv, TypeOK, SearchFails
<1> QED
  BY <1>2, <1>3
  DEF IInv, SearchFails, PadInv, SearchInv, FixupInv, ReturnsPaddedLen,
      ExactWhenReachable, NeverShort, OvershootBound

LEMMA TakeBestIInv == IInv /\ TakeBest => IInv'
<1> SUFFICES ASSUME IInv, TakeBest PROVE IInv'
  OBVIOUS
<1>1. best \in Nat
  <2>1. body \in Nat /\ high \in Nat /\ best = EncodedLen(body, high)
    BY DEF IInv, TypeOK, SearchBrackets, TakeBest
  <2> QED
    BY <2>1, EncodedLenLower
<1>2. candidate' = best
  BY <1>1, NoneAssumption DEF TakeBest
<1>3. TypeOK'
  BY <1>1, <1>2 DEF IInv, TypeOK, TakeBest
<1>4. SearchBrackets'
  BY DEF IInv, TakeBest, SearchBrackets
<1> QED
  BY <1>2, <1>3, <1>4
  DEF IInv, TakeBest, PadInv, SearchInv, FixupInv, ReturnsPaddedLen,
      ExactWhenReachable, NeverShort, OvershootBound

(* One turn of the fix-up loop passes the target, by at most nine bytes.   *)
LEMMA FixupFacts ==
  ASSUME IInv, Fixup
  PROVE  /\ candidate' \in Nat
         /\ candidate' > target
         /\ candidate' <= target + 9
         /\ pc' = "done"
         /\ candidate' = PaddedLen(body, target)
         /\ \A pad \in 0 .. target : EncodedLen(body, pad) # target
<1>1. body \in Nat /\ high \in Nat /\ target \in Nat
  BY DEF IInv, TypeOK, PadInv, Fixup
<1>2. /\ candidate = EncodedLen(body, high)
      /\ EncodedLen(body, high) < target
      /\ EncodedLen(body, high + 1) > target
  BY DEF IInv, FixupInv, SearchBrackets, Fixup
<1>3. EncodedLen(body, high) \in Nat /\ EncodedLen(body, high + 1) \in Nat
  <2>1. high + 1 \in Nat
    BY <1>1
  <2> QED
    BY <1>1, <2>1, EncodedLenLower
<1> DEFINE m == target - EncodedLen(body, high)
<1>4. m \in Nat /\ m >= 1
  BY <1>1, <1>2, <1>3
<1>5. candidate' = EncodedLen(body, high + m)
  BY <1>2 DEF Fixup
<1>6. EncodedLen(body, high + m) \in Nat /\ EncodedLen(body, high + m) > target
  <2> HIDE DEF m
  <2>1. high + m \in Nat /\ high + 1 \in Nat
    BY <1>1, <1>4
  <2>2. EncodedLen(body, high + m) \in Nat
    BY <1>1, <2>1, EncodedLenLower
  <2>3. CASE m = 1
    BY <1>2, <2>2, <2>3
  <2>4. CASE m > 1
    <3>1. high + 1 < high + m
      BY <1>1, <1>4, <2>4
    <3>2. EncodedLen(body, high + 1) < EncodedLen(body, high + m)
      BY <1>1, <2>1, <3>1, EncodedLenMonotone
    <3> QED
      BY <1>1, <1>2, <1>3, <2>2, <3>2
  <2> QED
    BY <1>4, <2>3, <2>4
<1>7. EncodedLen(body, high + m) <= target + 9
  BY <1>1, <1>2, GapIsSmall
<1>8. ASSUME NEW pad \in 0 .. target PROVE EncodedLen(body, pad) # target
  <2>1. pad \in Nat /\ EncodedLen(body, pad) \in Nat /\ high + 1 \in Nat
    BY <1>1, EncodedLenLower
  <2>2. CASE pad = high
    BY <1>1, <1>2, <1>3, <2>2
  <2>3. CASE pad < high
    <3>1. EncodedLen(body, pad) < EncodedLen(body, high)
      BY <1>1, <2>1, <2>3, EncodedLenMonotone
    <3> QED
      BY <1>1, <1>2, <1>3, <2>1, <3>1
  <2>4. CASE pad = high + 1
    BY <1>1, <1>2, <1>3, <2>4
  <2>5. CASE pad > high + 1
    <3>1. EncodedLen(body, high + 1) < EncodedLen(body, pad)
      BY <1>1, <2>1, <2>5, EncodedLenMonotone
    <3> QED
      BY <1>1, <1>2, <1>3, <2>1, <3>1
  <2> QED
    BY <1>1, <2>1, <2>2, <2>3, <2>4, <2>5
<1>9. pc' = "done"
  <2> HIDE DEF m
  <2>1. candidate' \in Nat /\ candidate' >= target
    BY <1>1, <1>5, <1>6
  <2> QED
    BY <2>1 DEF Fixup
<1>10. PaddedLen(body, target) = EncodedLen(body, high + m)
  <2>1. body < target
    BY DEF IInv, PadInv, Fixup
  <2> QED
    BY <1>1, <1>2, <1>3, <2>1, PaddedLenValue
<1> QED
  BY <1>5, <1>6, <1>7, <1>8, <1>9, <1>10

LEMMA FixupIInv == IInv /\ Fixup => IInv'
<1> SUFFICES ASSUME IInv, Fixup PROVE IInv'
  OBVIOUS
<1>1. /\ candidate' \in Nat
      /\ candidate' > target
      /\ candidate' <= target + 9
      /\ pc' = "done"
      /\ candidate' = PaddedLen(body, target)
      /\ \A pad \in 0 .. target : EncodedLen(body, pad) # target
  BY FixupFacts
<1>2. target \in Nat
  BY DEF IInv, TypeOK, PadInv, Fixup
<1>3. TypeOK'
  BY <1>1 DEF IInv, TypeOK, Fixup
<1>4. ExactWhenReachable' /\ NeverShort' /\ OvershootBound'
  BY <1>1, <1>2 DEF ExactWhenReachable, NeverShort, OvershootBound, Fixup
<1>5. ReturnsPaddedLen'
  BY <1>1 DEF ReturnsPaddedLen, Fixup
<1> QED
  BY <1>1, <1>3, <1>4, <1>5
  DEF IInv, PadInv, SearchInv, SearchBrackets, FixupInv

LEMMA NextIInv == IInv /\ [Next]_vars => IInv'
<1> SUFFICES ASSUME IInv, [Next]_vars PROVE IInv'
  OBVIOUS
<1>1. CASE UNCHANGED vars
  BY <1>1
  DEF vars, IInv, TypeOK, PadInv, SearchInv, SearchBrackets, FixupInv,
      ReturnsPaddedLen, ExactWhenReachable, NeverShort, OvershootBound
<1> QED
  BY <1>1, ReturnUnpaddedIInv, StartSearchIInv, ProbeEqualIInv, ProbeLessIInv,
     ProbeGreaterIInv, SearchFailsIInv, TakeBestIInv, FixupIInv
  DEF Next, Done

-----------------------------------------------------------------------------
LEMMA SpecIInv == Spec => []IInv
  BY InitIInv, NextIInv, PTL DEF Spec

(* The locals keep their types, so no unsigned subtraction wraps.          *)
THEOREM TypeCorrect == Spec => []TypeOK
<1>1. IInv => TypeOK
  BY DEF IInv
<1> QED
  BY <1>1, SpecIInv, PTL

(* The algorithm computes PaddedLen, for every body and every target.      *)
THEOREM ComputesPaddedLen == Spec => []ReturnsPaddedLen
<1>1. IInv => ReturnsPaddedLen
  BY DEF IInv
<1> QED
  BY <1>1, SpecIInv, PTL

(* For every body and every target, a reachable target is met exactly, and *)
(* an unreachable one is passed by at most nine bytes.                     *)
THEOREM PaddingCorrect ==
  Spec => [](ExactWhenReachable /\ NeverShort /\ OvershootBound)
<1>1. IInv => ExactWhenReachable /\ NeverShort /\ OvershootBound
  BY DEF IInv
<1> QED
  BY <1>1, SpecIInv, PTL

(* The fix-up loop makes up for every target that falls into a gap.        *)
COROLLARY NeverShortCorrect == Spec => []NeverShort
  BY PaddingCorrect, PTL

(* A gap costs the wrapper of the pad and no more, whatever the body.      *)
COROLLARY OvershootCorrect == Spec => []OvershootBound
  BY PaddingCorrect, PTL

(* A failed search leaves `high' at the largest pad that is too short.     *)
THEOREM BracketsCorrect == Spec => []SearchBrackets
<1>1. IInv => SearchBrackets
  BY DEF IInv
<1> QED
  BY <1>1, SpecIInv, PTL

(* The fix-up loop makes at most one turn.                                 *)
THEOREM FixupMakesOneTurn == Spec => FixupOnce
<1>1. IInv /\ [Next]_vars => [pc = "fixup" => pc' = "done"]_vars
  <2> SUFFICES ASSUME IInv, Next, pc = "fixup" PROVE pc' = "done"
    BY DEF vars
  <2>1. Fixup
    BY DEF Next, ReturnUnpadded, StartSearch, ProbeEqual, ProbeLess,
           ProbeGreater, SearchFails, TakeBest, Done
  <2> QED
    BY <2>1, FixupFacts
<1> QED
  BY <1>1, SpecIInv, PTL DEF Spec, FixupOnce

(* The bisection interval shrinks with every probe: with at most           *)
(* target - body + 1 pads in it to begin with, the search ends.            *)
THEOREM SearchMakesProgress == Spec => SearchShrinks
<1>1. IInv /\ [Next]_vars =>
        [(pc = "search" /\ pc' = "search") => high' - low' < high - low]_vars
  <2> SUFFICES ASSUME IInv, Next, pc = "search", pc' = "search"
               PROVE  high' - low' < high - low
    BY DEF vars
  <2>1. low \in Nat /\ high \in Nat
    BY DEF IInv, TypeOK
  <2>2. ProbeLess \/ ProbeGreater
    BY DEF Next, ReturnUnpadded, StartSearch, ProbeEqual, SearchFails,
           TakeBest, Fixup, Done
  <2>3. CASE ProbeLess
    <3>1. Mid \in Nat /\ low <= Mid /\ Mid <= high
      BY <2>3, ProbeFacts DEF ProbeLess
    <3> QED
      BY <2>1, <2>3, <3>1 DEF ProbeLess
  <2>4. CASE ProbeGreater
    <3>1. Mid \in Nat /\ low <= Mid /\ Mid <= high /\ Mid > 0
      BY <2>4, ProbeFacts DEF ProbeGreater
    <3> QED
      BY <2>1, <2>4, <3>1 DEF ProbeGreater
  <2> QED
    BY <2>2, <2>3, <2>4
<1> QED
  BY <1>1, SpecIInv, PTL DEF Spec, SearchShrinks
=============================================================================
