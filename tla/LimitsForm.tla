----------------------------- MODULE LimitsForm -----------------------------
(***************************************************************************)
(* The limits of one proxy on their way from the form of its page to the   *)
(* row, config.toml and the running telemt, each with its own way to say   *)
(* that a limit is set, cleared or left alone.  ProxyService has the other *)
(* operations and the interleavings; here one submission is under way at a *)
(* time, with every failure of its steps.                                  *)
(***************************************************************************)
EXTENDS Naturals

CONSTANTS
    Tag,        \* ad tags
    BadTag,     \* a text that is none
    MaxGB,      \* bound: the largest quota typed
    GB,         \* bytes in a gigabyte
    Wrap,       \* 2^64: a quota is a uint64
    Count,      \* numbers typed into the other fields
    Empty,      \* the empty string, an ad tag's "no tag"
    None,       \* no limit: a blank field, a nil pointer, no line, null
    Leave       \* a nil outer pointer, a key absent from the payload

\* conns stands for the expiry and the two caps, which travel alike.
Field == {"tag", "quota", "conns"}

Bytes == {(gb * GB) % Wrap : gb \in 0..MaxGB}

ASSUME LimitsAssumption ==
    /\ MaxGB \in Nat /\ GB \in Nat \ {0} /\ Wrap \in Nat \ {0} /\ Wrap % GB = 0
    /\ \A v \in {Empty, None, Leave, BadTag} : v \notin Tag \cup Count \cup Nat
    /\ Empty \notin {None, Leave} /\ None # Leave /\ BadTag \notin {Empty, None, Leave}

\* Limits as they are submitted: a bad ad tag is found when the file is written.
Submitted ==
    [tag : Tag \cup {Empty, BadTag}, quota : Bytes \cup {None}, conns : Count \cup {None}]

Limits == [tag : Tag \cup {Empty}, quota : Bytes \cup {None}, conns : Count \cup {None}]

\* What telemt knows of them: there is no empty ad tag.
Served == [tag : Tag \cup {None}, quota : Bytes \cup {None}, conns : Count \cup {None}]

VARIABLES
    row,        \* the row's limits
    message,    \* its StateMessage: "" or that the live apply failed
    file,       \* what config.toml says of them
    live,       \* what the running telemt enforces
    up,         \* telemt runs and answers
    page,       \* the row's limits when the page was loaded
    sub,        \* the submission under way
    outcome     \* history: how the last submission ended

vars == <<row, message, file, live, up, page, sub, outcome>>

-----------------------------------------------------------------------------
(* The representations.                                                    *)

\* Mutant: the page shows bytes.
PageInBytes(p) == p

\* detailPage: the page shows whole gigabytes.
Shown(p) == [p EXCEPT !.quota = IF @ = None THEN None ELSE @ \div GB]

\* optionalGB: a large quota wraps around.
OptionalGB(gb) == IF gb = None THEN None ELSE (gb * GB) % Wrap

\* Mutant: fields that show what the row has are left alone.
FormPatchChanged(form) ==
    LET patch == [form EXCEPT !.quota = OptionalGB(@)]
    IN  [f \in Field |-> IF patch[f] = row[f] THEN Leave ELSE patch[f]]

\* The form sends every field, so none is left alone.
FormPatch(form) == [form EXCEPT !.quota = OptionalGB(@)]

Patched(p, patch) == [f \in Field |-> IF patch[f] = Leave THEN p[f] ELSE patch[f]]

EmptyIsNone(p) == [p EXCEPT !.tag = IF @ = Empty THEN None ELSE @]

\* Mutant: a quota of 0 bytes leaves no line.
RenderedNonZero(p) == [EmptyIsNone(p) EXCEPT !.quota = IF @ = 0 THEN None ELSE @]

\* Render: a nil pointer and an empty ad tag leave no line.
Rendered(p) == EmptyIsNone(p)

\* Mutant: an empty ad tag is sent as it is.
ApiPatchEmpty(patch) == patch

\* apiPatch and MarshalJSON: an absent key, null or a value.
ApiPatch(patch) == EmptyIsNone(patch)

\* telemt: what is absent stays, null removes the limit.
Merged(limits, payload) ==
    [f \in Field |-> IF payload[f] = Leave THEN limits[f] ELSE payload[f]]

-----------------------------------------------------------------------------
(* The page and Service.UpdateLimits.                                      *)

Texts == [tag : Tag \cup {Empty, BadTag}, quota : 0..MaxGB \cup {None}, conns : Count \cup {None}]

NoSubmission == [pc |-> "idle"]

\* getProxy.  Until a submission is answered the page is the one submitted.
Load ==
    /\ sub = NoSubmission
    /\ page' = row
    /\ UNCHANGED <<row, message, file, live, up, sub, outcome>>

\* postLimits with what the fields hold by now, and GetProxy.  The page stays:
\* the operator may come back to it.
Submit ==
    /\ sub = NoSubmission
    /\ \E form \in Texts :
         sub' = [pc |-> "file", form |-> form, limits |-> Patched(row, FormPatch(form)),
                 message |-> ""]
    /\ UNCHANGED <<row, message, file, live, up, page, outcome>>

End(how) == sub' = NoSubmission /\ outcome' = how

\* writeConfig, which refuses an ad tag that is none.
WriteConfig ==
    /\ sub.pc = "file"
    /\ \/ /\ sub.limits.tag # BadTag
          /\ file' = Rendered(sub.limits)
          /\ sub' = [sub EXCEPT !.pc = "patch"]
          /\ UNCHANGED outcome
       \/ End("failed") /\ UNCHANGED file
    /\ UNCHANGED <<row, message, live, up, page>>

\* The live apply: done, done but the answer is lost, or not done.
PatchUser ==
    /\ sub.pc = "patch"
    /\ \/ /\ up
          /\ live' = Merged(live, ApiPatch(FormPatch(sub.form)))
          /\ sub' = [sub EXCEPT !.pc = "row"]
       \/ /\ \/ up /\ live' = Merged(live, ApiPatch(FormPatch(sub.form)))
             \/ UNCHANGED live
          /\ sub' = [sub EXCEPT !.pc = "row", !.message = "live apply failed"]
    /\ UNCHANGED <<row, message, file, up, page, outcome>>

UpdateProxy ==
    /\ sub.pc = "row"
    /\ \/ row' = sub.limits /\ message' = sub.message /\ End("saved")
       \/ End("failed") /\ UNCHANGED <<row, message>>
    /\ UNCHANGED <<file, live, up, page>>

\* The panel stops in the middle.
Crash ==
    /\ sub # NoSubmission
    /\ End("failed")
    /\ UNCHANGED <<row, message, file, live, up, page>>

TelemtStop ==
    /\ up
    /\ up' = FALSE
    /\ UNCHANGED <<row, message, file, live, page, sub, outcome>>

\* A telemt that starts reads config.toml.
TelemtStart ==
    /\ ~up
    /\ up' = TRUE /\ live' = file
    /\ UNCHANGED <<row, message, file, page, sub, outcome>>

\* A proxy that Create made.
Init ==
    /\ row \in Limits
    /\ message = ""
    /\ file = Rendered(row) /\ live = file
    /\ up = TRUE
    /\ page = row
    /\ sub = NoSubmission
    /\ outcome = "saved"

Next ==
    \/ Load \/ Submit \/ WriteConfig \/ PatchUser \/ UpdateProxy \/ Crash
    \/ TelemtStop \/ TelemtStart

Spec == Init /\ [][Next]_vars

-----------------------------------------------------------------------------
(* Properties.                                                             *)

Submission ==
    [pc : {"file", "patch", "row"}, form : Texts, limits : Submitted,
     message : {"", "live apply failed"}]

\* Every representation holds what it can express.
TypeOK ==
    /\ row \in Limits /\ page \in Limits
    /\ file \in Served /\ live \in Served
    /\ message \in {"", "live apply failed"}
    /\ up \in BOOLEAN
    /\ sub \in Submission \cup {NoSubmission}
    /\ outcome \in {"saved", "failed"}

Quiet == sub = NoSubmission /\ outcome = "saved"

\* Whatever failed before it, a submission that was saved left config.toml with
\* the limits of the row: they survive telemt's restarts (UpdateLimits).
SavedIsFiled == Quiet => file = EmptyIsNone(row)

\* Whatever failed before it, and however limits were set and cleared, a saved
\* submission that reports no failed live apply is in force, even if earlier
\* ones were not: all four ways to write a limit agree (UpdateLimits, apiPatch).
SilenceMeansServed == Quiet /\ message = "" /\ up => live = EmptyIsNone(row)

\* A field of the row changes only if the form held something else than the page
\* it was loaded with, or if that page showed an older row: an untouched field
\* round-trips its value, a wrapped quota too (postLimits, detailPage).
UntouchedKept ==
    [][\A f \in Field :
          row'[f] # row[f] => sub.form[f] # Shown(page)[f] \/ page[f] # row[f]]_vars
=============================================================================
