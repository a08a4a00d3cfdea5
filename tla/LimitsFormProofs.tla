-------------------------- MODULE LimitsFormProofs --------------------------
(***************************************************************************)
(* Proofs about the limits of a proxy, for any tags, any quotas and any    *)
(* width of the integer a quota is kept in.                                *)
(***************************************************************************)
EXTENDS LimitsForm, Integers, TLAPS

\* What a submission under way has done, and that its limits are all it sends.
Underway ==
    sub # NoSubmission =>
        /\ sub.limits = FormPatch(sub.form)
        /\ sub.pc \in {"patch", "row"} => /\ file = EmptyIsNone(sub.limits)
                                          /\ sub.limits \in Limits
        /\ sub.pc = "row" /\ sub.message = "" /\ up => live = EmptyIsNone(sub.limits)

IInv == TypeOK /\ SavedIsFiled /\ SilenceMeansServed /\ Underway

-----------------------------------------------------------------------------
\* A submission is none of the values that say there is none.
LEMMA SubmissionOK ==
    ASSUME NEW s \in Submission
    PROVE  s # NoSubmission
<1>1. s.pc # "idle"
  BY DEF Submission
<1>2. NoSubmission.pc = "idle"
  BY DEF NoSubmission
<1> QED
  BY <1>1, <1>2

\* What is past its start is a submission under way.
LEMMA UnderwayOK ==
    ASSUME IInv, sub.pc # "idle"
    PROVE  sub \in Submission /\ sub # NoSubmission
<1>1. NoSubmission.pc = "idle"
  BY DEF NoSubmission
<1> QED
  BY <1>1 DEF IInv, TypeOK

LEMMA BytesAreNumbers == Bytes \subseteq Nat
BY LimitsAssumption DEF Bytes

\* A form sends every field, so that the row takes all of it.
LEMMA FormPatchOK ==
    ASSUME NEW form \in Texts
    PROVE  /\ FormPatch(form) \in Submitted
           /\ \A f \in Field : FormPatch(form)[f] # Leave
<1>1. \A gb \in 0..MaxGB \cup {None} : OptionalGB(gb) \in Bytes \cup {None}
  BY LimitsAssumption DEF OptionalGB, Bytes
<1>2. FormPatch(form) \in Submitted
  BY <1>1 DEF FormPatch, Texts, Submitted
<1> QED
  BY <1>2, LimitsAssumption, BytesAreNumbers DEF Submitted, Field

\* Records of the three fields and functions on Field are the same.
LEMMA FieldRecord ==
    ASSUME NEW r \in Submitted \cup Served
    PROVE  r = [f \in Field |-> r[f]]
BY DEF Submitted, Served, Field

LEMMA PatchedOK ==
    ASSUME NEW patch \in Submitted, \A f \in Field : patch[f] # Leave, NEW p
    PROVE  Patched(p, patch) = patch
BY FieldRecord DEF Patched

LEMMA MergedOK ==
    ASSUME NEW payload \in Served, NEW limits
    PROVE  Merged(limits, payload) = payload
<1>1. \A f \in Field : payload[f] # Leave
  BY LimitsAssumption, BytesAreNumbers DEF Served, Field
<1> QED
  BY <1>1, FieldRecord DEF Merged

LEMMA EmptyIsNoneOK ==
    ASSUME NEW p \in Limits
    PROVE  EmptyIsNone(p) \in Served
BY DEF EmptyIsNone, Limits, Served

-----------------------------------------------------------------------------
LEMMA SubmitOK == ASSUME IInv, Submit PROVE IInv'
<1> PICK form \in Texts :
        sub' = [pc |-> "file", form |-> form, limits |-> Patched(row, FormPatch(form)),
                message |-> ""]
  BY DEF Submit
<1>1. FormPatch(form) \in Submitted /\ Patched(row, FormPatch(form)) = FormPatch(form)
  BY FormPatchOK, PatchedOK
<1>2. UNCHANGED <<row, message, file, live, up, page, outcome>>
  BY DEF Submit
<1>3. /\ sub' \in Submission /\ sub'.pc = "file" /\ sub'.form = form
      /\ sub'.limits = FormPatch(form)
  BY <1>1 DEF Submission
<1>4. sub' # NoSubmission
  BY <1>3, SubmissionOK
<1> QED
  BY <1>2, <1>3, <1>4 DEF IInv, TypeOK, SavedIsFiled, SilenceMeansServed, Quiet, Underway

\* Steps that end a submission without saving it.
LEMMA FailedOK ==
    ASSUME IInv, End("failed"), UNCHANGED <<row, message, file, live, up, page>>
    PROVE  IInv'
BY DEF IInv, TypeOK, SavedIsFiled, SilenceMeansServed, Quiet, Underway, End

LEMMA WriteConfigOK == ASSUME IInv, WriteConfig PROVE IInv'
<1>1. UNCHANGED <<row, message, live, up, page>> /\ sub.pc = "file"
  BY DEF WriteConfig
<1>2. CASE End("failed") /\ UNCHANGED file
  BY <1>1, <1>2, FailedOK
<1>3. CASE /\ sub.limits.tag # BadTag
           /\ file' = Rendered(sub.limits)
           /\ sub' = [sub EXCEPT !.pc = "patch"]
           /\ UNCHANGED outcome
  <2>1. sub \in Submission /\ sub.limits = FormPatch(sub.form)
    BY <1>1, UnderwayOK DEF IInv, Underway
  <2>2. /\ sub' \in Submission /\ sub'.pc = "patch" /\ sub'.form = sub.form
        /\ sub'.limits = sub.limits
    BY <1>3, <2>1 DEF Submission
  <2>3. sub.limits \in Limits
    BY <1>3, <2>1 DEF Submission, Submitted, Limits
  <2>4. file' = EmptyIsNone(sub.limits) /\ file' \in Served
    BY <1>3, <2>3, EmptyIsNoneOK DEF Rendered
  <2>5. sub' # NoSubmission
    BY <2>2, SubmissionOK
  <2> QED
    BY <1>1, <1>3, <2>1, <2>2, <2>3, <2>4, <2>5
       DEF IInv, TypeOK, SavedIsFiled, SilenceMeansServed, Quiet, Underway
<1> QED
  BY <1>2, <1>3 DEF WriteConfig

LEMMA PatchUserOK == ASSUME IInv, PatchUser PROVE IInv'
<1>1. UNCHANGED <<row, message, file, up, page, outcome>> /\ sub.pc = "patch"
  BY DEF PatchUser
<1>2. /\ sub \in Submission /\ sub.limits = FormPatch(sub.form) /\ sub.limits \in Limits
      /\ file = EmptyIsNone(sub.limits) /\ EmptyIsNone(sub.limits) \in Served
  BY <1>1, UnderwayOK, EmptyIsNoneOK DEF IInv, Underway
<1>3. Merged(live, ApiPatch(FormPatch(sub.form))) = EmptyIsNone(sub.limits)
  BY <1>2, MergedOK DEF ApiPatch
<1>4. /\ live' = EmptyIsNone(sub.limits) \/ live' = live
      /\ sub' \in Submission /\ sub'.pc = "row" /\ sub'.form = sub.form
      /\ sub'.limits = sub.limits
      /\ sub'.message = "" => live' = EmptyIsNone(sub.limits)
  <2>1. CASE /\ up
             /\ live' = Merged(live, ApiPatch(FormPatch(sub.form)))
             /\ sub' = [sub EXCEPT !.pc = "row"]
    BY <2>1, <1>2, <1>3 DEF Submission
  <2>2. CASE /\ \/ up /\ live' = Merged(live, ApiPatch(FormPatch(sub.form)))
                \/ UNCHANGED live
             /\ sub' = [sub EXCEPT !.pc = "row", !.message = "live apply failed"]
    BY <2>2, <1>2, <1>3 DEF Submission
  <2> QED
    BY <2>1, <2>2 DEF PatchUser
<1>5. sub' # NoSubmission
  BY <1>4, SubmissionOK
<1> QED
  BY <1>1, <1>2, <1>4, <1>5
     DEF IInv, TypeOK, SavedIsFiled, SilenceMeansServed, Quiet, Underway

LEMMA UpdateProxyOK == ASSUME IInv, UpdateProxy PROVE IInv'
<1>1. UNCHANGED <<file, live, up, page>> /\ sub.pc = "row"
  BY DEF UpdateProxy
<1>2. CASE End("failed") /\ UNCHANGED <<row, message>>
  BY <1>1, <1>2, FailedOK
<1>3. CASE row' = sub.limits /\ message' = sub.message /\ End("saved")
  <2>1. /\ sub \in Submission /\ sub.limits \in Limits
        /\ file = EmptyIsNone(sub.limits)
        /\ sub.message = "" /\ up => live = EmptyIsNone(sub.limits)
    BY <1>1, UnderwayOK DEF IInv, Underway
  <2>2. sub.message \in {"", "live apply failed"}
    BY <2>1 DEF Submission
  <2> QED
    BY <1>1, <1>3, <2>1, <2>2
       DEF IInv, TypeOK, SavedIsFiled, SilenceMeansServed, Quiet, Underway, End
<1> QED
  BY <1>2, <1>3 DEF UpdateProxy

LEMMA TelemtOK == ASSUME IInv, TelemtStop \/ TelemtStart PROVE IInv'
<1>1. UNCHANGED <<row, message, file, page, sub, outcome>>
  BY DEF TelemtStop, TelemtStart
<1>2. (up' = FALSE /\ live' = live) \/ (live' = file /\ up' = TRUE)
  BY DEF TelemtStop, TelemtStart
<1> QED
  BY <1>1, <1>2 DEF IInv, TypeOK, SavedIsFiled, SilenceMeansServed, Quiet, Underway

LEMMA LoadOK == ASSUME IInv, Load PROVE IInv'
BY DEF Load, IInv, TypeOK, SavedIsFiled, SilenceMeansServed, Quiet, Underway

LEMMA InitOK == Init => IInv
BY EmptyIsNoneOK DEF Init, Rendered, IInv, TypeOK, SavedIsFiled, SilenceMeansServed,
   Quiet, Underway

LEMMA NextOK == IInv /\ [Next]_vars => IInv'
<1> SUFFICES ASSUME IInv, [Next]_vars PROVE IInv'
  OBVIOUS
<1>1. CASE Crash
  BY <1>1, FailedOK DEF Crash
<1>2. CASE UNCHANGED vars
  BY <1>2 DEF vars, IInv, TypeOK, SavedIsFiled, SilenceMeansServed, Quiet, Underway
<1> QED
  BY <1>1, <1>2, LoadOK, SubmitOK, WriteConfigOK, PatchUserOK, UpdateProxyOK, TelemtOK
     DEF Next

LEMMA Inductive == Spec => []IInv
BY InitOK, NextOK, PTL DEF Spec

-----------------------------------------------------------------------------
\* Every representation holds what it can express.
THEOREM TypeCorrect == Spec => []TypeOK
<1>1. IInv => TypeOK
  BY DEF IInv
<1> QED
  BY <1>1, Inductive, PTL

\* A saved submission's limits survive telemt's restarts (UpdateLimits).
THEOREM SavedSurvivesRestart == Spec => []SavedIsFiled
<1>1. IInv => SavedIsFiled
  BY DEF IInv
<1> QED
  BY <1>1, Inductive, PTL

\* Limits saved without a word about the live apply are in force (UpdateLimits).
THEOREM SilentSaveIsServed == Spec => []SilenceMeansServed
<1>1. IInv => SilenceMeansServed
  BY DEF IInv
<1> QED
  BY <1>1, Inductive, PTL

-----------------------------------------------------------------------------
\* What division and remainder have to do with each other.
LEMMA DivMod ==
    ASSUME NEW a \in Nat, NEW b \in Nat \ {0}
    PROVE  /\ a \div b \in Int /\ a % b \in 0..b - 1
           /\ a = b * (a \div b) + (a % b)
<1>1. a \div b \in Int
  OBVIOUS
<1>2. a % b \in 0..b - 1
  OBVIOUS
<1>3. a = b * (a \div b) + (a % b)
  OBVIOUS
<1> QED
  BY <1>1, <1>2, <1>3

LEMMA MultipleLeft ==
    ASSUME NEW n \in Int, NEW G \in Int, NEW W \in Int, NEW q \in Int, NEW k \in Int,
           NEW b \in Int, n * G = W * q + b, W = G * k
    PROVE  b = G * (n - k * q)
OBVIOUS

LEMMA ExactQuotient ==
    ASSUME NEW m \in Int, NEW b \in Nat \ {0}
    PROVE  (b * m) \div b = m
OBVIOUS

\* A quota that was typed, wrapped or not, is a whole number of gigabytes, so
\* the page shows one that gives it back (optionalGB, detailPage).
LEMMA QuotaRoundTrip ==
    ASSUME NEW quota \in Bytes
    PROVE  OptionalGB(quota \div GB) = quota
<1> PICK n \in 0..MaxGB : quota = (n * GB) % Wrap
  BY DEF Bytes
<1> DEFINE k == Wrap \div GB
           q == (n * GB) \div Wrap
           m == n - k * q
<1>1. n \in Nat /\ GB \in Nat \ {0} /\ Wrap \in Nat \ {0} /\ n * GB \in Nat
  BY LimitsAssumption
<1>2. k \in Int /\ Wrap = GB * k
  BY <1>1, DivMod, LimitsAssumption
<1>3. q \in Int /\ quota \in 0..Wrap - 1 /\ n * GB = Wrap * q + quota
  BY <1>1, DivMod
<1>4. m \in Int /\ quota = GB * m
  <2> HIDE DEF k, q
  <2> QED
    BY <1>1, <1>2, <1>3, MultipleLeft
<1> HIDE DEF m
<1>5. quota \div GB = m
  BY <1>1, <1>4, ExactQuotient
<1>6. (m * GB) % Wrap = quota
  <2>1. m * GB = quota
    BY <1>1, <1>4
  <2>2. quota % Wrap = quota
    BY <1>1, <1>3
  <2> QED
    BY <2>1, <2>2
<1>7. m # None
  <2>1. m \in Nat
    BY <1>1, <1>3, <1>4
  <2> QED
    BY <2>1, LimitsAssumption
<1> QED
  BY <1>5, <1>6, <1>7 DEF OptionalGB

\* What an untouched field of a page sends is the limit it was loaded with.
LEMMA Untouched ==
    ASSUME NEW p \in Limits, NEW form \in Texts, NEW f \in Field, form[f] = Shown(p)[f]
    PROVE  FormPatch(form)[f] = p[f]
<1>1. CASE f = "quota"
  <2>1. FormPatch(form)[f] = OptionalGB(Shown(p).quota)
    BY <1>1 DEF FormPatch, Texts
  <2>2. Shown(p).quota = IF p.quota = None THEN None ELSE p.quota \div GB
    BY DEF Shown, Limits
  <2>3. p.quota \in Bytes \cup {None} /\ None \notin Bytes
    BY BytesAreNumbers, LimitsAssumption DEF Limits
  <2>4. OptionalGB(None) = None
    BY DEF OptionalGB
  <2> QED
    BY <1>1, <2>1, <2>2, <2>3, <2>4, QuotaRoundTrip
<1>2. CASE f # "quota"
  BY <1>2 DEF Field, FormPatch, Texts, Shown, Limits
<1> QED
  BY <1>1, <1>2

\* An untouched field of a page that is up to date changes nothing (postLimits).
THEOREM UntouchedIsKept == Spec => UntouchedKept
<1> DEFINE Kept == \A f \in Field :
          row'[f] # row[f] => sub.form[f] # Shown(page)[f] \/ page[f] # row[f]
<1>1. IInv /\ [Next]_vars => [Kept]_vars
  <2> SUFFICES ASSUME IInv, Next, NEW f \in Field, row'[f] # row[f],
                      sub.form[f] = Shown(page)[f], page[f] = row[f]
               PROVE  FALSE
    OBVIOUS
  <2>1. sub.pc = "row" /\ row' = sub.limits
    BY DEF Next, Load, Submit, WriteConfig, PatchUser, UpdateProxy, Crash, TelemtStop,
           TelemtStart
  <2>2. sub \in Submission /\ sub.limits = FormPatch(sub.form) /\ page \in Limits
    BY <2>1, UnderwayOK DEF IInv, TypeOK, Underway
  <2>3. sub.form \in Texts
    BY <2>2 DEF Submission
  <2> QED
    BY <2>1, <2>2, <2>3, Untouched
<1> QED
  BY <1>1, Inductive, PTL DEF Spec, UntouchedKept
=============================================================================
