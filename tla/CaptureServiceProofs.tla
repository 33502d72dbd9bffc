------------------------ MODULE CaptureServiceProofs ------------------------
(***************************************************************************)
(* What every implementation of CaptureService inherits from it.           *)
(***************************************************************************)
EXTENDS CaptureService, TLAPS

Inv == TypeOK /\ ArchivedIsPlayable

LEMMA InvInit == Init => Inv
BY DEF Init, Inv, TypeOK, State, ArchivedIsPlayable

LEMMA InvStep == Inv /\ [Next]_vars => Inv'
<1> SUFFICES ASSUME Inv, [Next]_vars PROVE Inv'
  OBVIOUS
<1> USE DEF Inv, TypeOK, State, ArchivedIsPlayable, Move
<1>1. ASSUME NEW R \in SUBSET Requests, Drop(R) PROVE Inv' BY <1>1 DEF Drop
<1>2. ASSUME NEW r \in Requests, Submit(r) PROVE Inv' BY <1>2 DEF Submit
<1>3. ASSUME NEW r \in Requests, Start(r) PROVE Inv' BY <1>3 DEF Start
<1>4. ASSUME NEW r \in Requests, Archive(r) PROVE Inv' BY <1>4 DEF Archive
<1>5. ASSUME NEW r \in Requests, Fail(r) PROVE Inv' BY <1>5 DEF Fail
<1>6. ASSUME NEW r \in Requests, Delete(r) PROVE Inv' BY <1>6 DEF Delete
<1>7. ASSUME NEW r \in Requests, Upload(r) PROVE Inv' BY <1>7 DEF Upload
<1>8. CASE UNCHANGED vars BY <1>8 DEF vars
<1>9. QED BY <1>1, <1>2, <1>3, <1>4, <1>5, <1>6, <1>7, <1>8 DEF Next

\* A request that is archived can be played back until its link is deleted.
THEOREM ArchivedStaysPlayable == Spec => []ArchivedIsPlayable
<1>1. Inv => ArchivedIsPlayable BY DEF Inv
<1>2. QED BY <1>1, InvInit, InvStep, PTL DEF Spec

=============================================================================
