-------------------------- MODULE BodyBufferProofs --------------------------
(* BodyBuffer for every cap, every set of frame sizes and every number of  *)
(* frames.                                                                 *)
EXTENDS BodyBuffer, TLAPS

(* Whatever the route asks for, the cap in force is a number of bytes.     *)
LEMMA CapIsNat == ASSUME NEW c PROVE BodyCap(c) \in Nat
  BY CapAssumption DEF BodyCap

(* The counters of buffer_body are naturals throughout.                    *)
THEOREM TypeCorrect == Spec => []TypeOK
<1>1. Init => TypeOK
  <2> SUFFICES ASSUME Init PROVE TypeOK
    OBVIOUS
  <2>1. cap \in Nat
    BY CapIsNat DEF Init
  <2> QED
    BY <2>1, FrameAssumption DEF Init, TypeOK, Outcomes
<1>2. TypeOK /\ [Next]_vars => TypeOK'
  <2> SUFFICES ASSUME TypeOK, [Next]_vars PROVE TypeOK'
    OBVIOUS
  <2> USE FrameAssumption DEF TypeOK, Outcomes
  <2>1. ASSUME NEW n \in FrameSizes, DataFrame(n) PROVE TypeOK'
    <3>1. n \in Nat /\ buffered + n \in Nat /\ offered + n \in Nat
      OBVIOUS
    <3>2. frames' \in 0 .. MaxFrames
      BY <2>1 DEF DataFrame, Pull
    <3> QED
      BY <2>1, <3>1, <3>2 DEF DataFrame, Pull
  <2>2. CASE TrailersFrame
    BY <2>2 DEF TrailersFrame, Pull
  <2>3. CASE FrameError
    BY <2>3 DEF FrameError, Pull
  <2>4. CASE EndOfStream
    BY <2>4 DEF EndOfStream
  <2>5. CASE Dropped
    BY <2>5 DEF Dropped
  <2>6. CASE UNCHANGED vars
    BY <2>6 DEF vars
  <2> QED
    BY <2>1, <2>2, <2>3, <2>4, <2>5, <2>6 DEF Next
<1> QED
  BY <1>1, <1>2, PTL DEF Spec

\* While the loop runs, and when it returns a body, every byte is held; a
\* refused body was stopped by the frame that did not fit.
Ledger ==
  /\ NoTruncation
  /\ BoundedIntake
  /\ outcome # "too_large" => offered = buffered

(* The ledger of bytes is inductive over the types.                        *)
LEMMA LedgerInductive == Spec => []Ledger
<1> USE DEF Ledger, NoTruncation, BoundedIntake
<1>1. Init => Ledger
  BY CapIsNat DEF Init
<1>2. TypeOK /\ Ledger /\ [Next]_vars => Ledger'
  <2> SUFFICES ASSUME TypeOK, Ledger, [Next]_vars PROVE Ledger'
    OBVIOUS
  <2> USE FrameAssumption DEF TypeOK
  <2>1. ASSUME NEW n \in FrameSizes, DataFrame(n) PROVE Ledger'
    <3>1. n \in Nat /\ offered = buffered /\ outcome = "pending"
      BY <2>1 DEF DataFrame, Pull
    <3>2. CASE Fits(n)
      <4>1. /\ offered' = offered + n /\ buffered' = buffered + n /\ cap' = cap
            /\ outcome' = "pending"
        BY <2>1, <3>1, <3>2 DEF DataFrame
      <4> QED
        BY <3>1, <3>2, <4>1 DEF Fits
    <3>3. CASE ~Fits(n)
      <4>1. /\ offered' = buffered + n /\ buffered' = buffered /\ cap' = cap
            /\ outcome' = "too_large"
        BY <2>1, <3>1, <3>3 DEF DataFrame
      <4> QED
        BY <3>1, <3>3, <4>1 DEF Fits
    <3> QED
      BY <3>2, <3>3
  <2>2. CASE TrailersFrame
    BY <2>2 DEF TrailersFrame, Pull
  <2>3. CASE FrameError
    BY <2>3 DEF FrameError, Pull
  <2>4. CASE EndOfStream
    BY <2>4 DEF EndOfStream
  <2>5. CASE Dropped
    BY <2>5 DEF Dropped
  <2>6. CASE UNCHANGED vars
    BY <2>6 DEF vars
  <2> QED
    BY <2>1, <2>2, <2>3, <2>4, <2>5, <2>6 DEF Next
<1> QED
  BY <1>1, <1>2, TypeCorrect, PTL DEF Spec

(* No body is ever returned with a byte missing.                           *)
THEOREM WholeBody == Spec => []NoTruncation
  BY LedgerInductive, PTL DEF Ledger

(* The guard holds no more than the cap and reads one frame past it.       *)
THEOREM IntakeBounded == Spec => []BoundedIntake
  BY LedgerInductive, PTL DEF Ledger

(* The frame loop implements the verdict over the bytes.                   *)
THEOREM LoopImplementsVerdict == Spec => ImplementsVerdict
<1>1. Init => Contract!BodyStart
  BY CapIsNat DEF Init, Contract!BodyStart
<1>2. TypeOK /\ Ledger /\ [Next]_vars => [Contract!Decide]_(Contract!bodyVars)
  <2> SUFFICES ASSUME TypeOK, Ledger, [Next]_vars
               PROVE Contract!Decide \/ UNCHANGED Contract!bodyVars
    OBVIOUS
  <2> USE FrameAssumption
       DEF TypeOK, Ledger, NoTruncation, BoundedIntake, Contract!Decide, Contract!bodyVars
  <2>1. ASSUME NEW n \in FrameSizes, DataFrame(n)
        PROVE Contract!Decide \/ UNCHANGED Contract!bodyVars
    <3>1. n \in Nat /\ offered = buffered /\ outcome = "pending" /\ cap' = cap
      BY <2>1 DEF DataFrame, Pull
    <3>2. CASE Fits(n)
      <4>1. offered' = offered + n /\ buffered' = buffered + n /\ outcome' = "pending"
        BY <2>1, <3>1, <3>2 DEF DataFrame
      <4>2. Contract!Arrives
        BY <3>1, <3>2, <4>1 DEF Fits, Contract!Arrives
      <4> QED
        BY <3>1, <4>2
    <3>3. CASE ~Fits(n)
      <4>1. offered' = offered + n /\ buffered' = buffered /\ outcome' = "too_large"
        BY <2>1, <3>1, <3>3 DEF DataFrame
      <4>2. Contract!RefusedTooLarge
        BY <3>1, <3>3, <4>1 DEF Fits, Contract!RefusedTooLarge
      <4> QED
        BY <3>1, <4>2
    <3> QED
      BY <3>2, <3>3
  <2>2. CASE TrailersFrame
    BY <2>2 DEF TrailersFrame, Pull
  <2>3. CASE FrameError
    BY <2>3 DEF FrameError, Pull, Contract!Broken
  <2>4. CASE EndOfStream
    BY <2>4 DEF EndOfStream, Contract!Accepted
  <2>5. CASE Dropped
    BY <2>5 DEF Dropped, Contract!Broken
  <2>6. CASE UNCHANGED vars
    BY <2>6 DEF vars
  <2> QED
    BY <2>1, <2>2, <2>3, <2>4, <2>5, <2>6 DEF Next
<1> QED
  BY <1>1, <1>2, TypeCorrect, LedgerInductive, PTL
     DEF Spec, ImplementsVerdict, Contract!VerdictSpec
=============================================================================
