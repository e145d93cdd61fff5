----------------------------- MODULE ProviderConfig ----------------------------
(***************************************************************************)
(* The provider configuration outside the database, and the connection     *)
(* test that uses it.  A save writes a directory for a new revision and    *)
(* then replaces the pointer file; the file lock makes saves sequential,   *)
(* so a save is one action, which a crash may cut before the pointer.  A   *)
(* client that lost the answer sends the same request again, at any time.  *)
(* A connection test freezes the revision it was asked for and is executed *)
(* by a worker in several transactions, with saves between them.           *)
(*                                                                         *)
(* A binding stands for the triple (endpoint, protocol, auth mode); a      *)
(* profile for its binding.  Limits, prices and languages of the profile,  *)
(* display defaults and file checks are left out.                          *)
(***************************************************************************)
EXTENDS Naturals, Sequences, FiniteSets, FiniteSetsExt

CONSTANTS
  Bindings, Protocol,   \* protocol of each binding
  LocalProtocol,        \* the protocol that takes no key
  Keys, NoKey,
  Requests,             \* saves clients may ask for: [idem, binding, key, clear]
  LegacyBinding,        \* binding of the profile of the deployment, NoBinding without one
  LegacyKey,            \* its key as far as the API can read it
  NoBinding,
  Tests,                \* connection tests users may ask for
  MaxRevisions          \* bound: directories of revisions

ProviderConfigAssumption ==
  /\ Protocol \in [Bindings -> STRING]
  /\ NoKey \notin Keys /\ NoBinding \notin Bindings
  /\ Requests \subseteq [idem : Nat, binding : Bindings, key : Keys \cup {NoKey}, clear : BOOLEAN]
  /\ LegacyBinding \in Bindings \cup {NoBinding} /\ LegacyKey \in Keys \cup {NoKey}
  /\ MaxRevisions \in Nat

VARIABLES
  revisions,   \* versions/<id>: one record per directory, in order of creation
  current,     \* current.json: index of a revision, 0 without the file
  test,        \* Job.status of a connection test and the place of its worker
  frozen,      \* payload.profile of the test: the revision, 0 for the legacy profile
  held         \* the key its worker would send

configVars == <<revisions, current, test, frozen, held>>

LegacyConfigured == LegacyBinding # NoBinding
Generation == IF current = 0 THEN 0 ELSE revisions[current].generation

(* The committed history: a revision and, through previous_revision, all before it. *)
Chain[r \in 0 .. Len(revisions)] ==
  IF r = 0 THEN {} ELSE {r} \cup Chain[revisions[r].previous]

(* saved_profiles: the latest settings of a protocol in the committed history. *)
OfProtocol(history, p) == {r \in history : Protocol[revisions[r].binding] = p}
Source(binding, key) == [binding |-> binding, key |-> key]
RevisionSource(r) == Source(revisions[r].binding, revisions[r].key)
Old == IF current = 0 THEN Source(LegacyBinding, LegacyKey) ELSE RevisionSource(current)
SavedProfile(p) ==
  LET saved == OfProtocol(Chain[current], p)
  IN  IF saved # {} THEN RevisionSource(Max(saved))
      ELSE IF LegacyConfigured /\ Protocol[LegacyBinding] = p THEN Source(LegacyBinding, LegacyKey)
      ELSE Old

(* Where a save that brings no key takes its key from. *)
KeySource(binding) ==
  IF current # 0 /\ Protocol[Old.binding] # Protocol[binding]
    THEN SavedProfile(Protocol[binding]) ELSE Old

CarriesKey(q) ==
  /\ Protocol[q.binding] # LocalProtocol
  /\ ~q.clear /\ q.key = NoKey
  /\ current # 0 \/ LegacyConfigured

ValidRequest(q) ==
  /\ Protocol[q.binding] = LocalProtocol => q.key = NoKey /\ ~q.clear
  /\ ~(q.key # NoKey /\ q.clear)

SameProtocol(source, q) ==   \* mutant: another endpoint of the protocol gets the key
  source.key # NoKey => Protocol[source.binding] = Protocol[q.binding]
SameBinding(source, q) == source.key # NoKey => source.binding = q.binding

KeyAllowed(q) ==
  CarriesKey(q) => LET source == KeySource(q.binding)
                   IN  /\ current = 0 => source.key # NoKey
                       /\ SameBinding(source, q)

NewKey(q) == IF CarriesKey(q) THEN KeySource(q.binding).key ELSE q.key

ReplayedLast(q) ==   \* mutant: only the current revision is compared
  {r \in {current} \ {0} : revisions[r].idem = q.idem}

(* The revision an earlier execution of the same operation has committed. *)
Replayed(q) == {r \in Chain[current] : revisions[r].idem = q.idem}

NewRevision(q) ==
  [binding |-> q.binding, key |-> NewKey(q), idem |-> q.idem,
   generation |-> Generation + 1, previous |-> current,
   typed |-> q.key # NoKey, cleared |-> q.clear]

WriteRevision(q) ==
  /\ Len(revisions) < MaxRevisions
  /\ ValidRequest(q) /\ KeyAllowed(q)
  /\ Replayed(q) = {}
  /\ revisions' = Append(revisions, NewRevision(q))
  /\ UNCHANGED <<test, frozen, held>>

(* A replayed, refused or stale request changes nothing. *)
Save(q) == WriteRevision(q) /\ current' = Len(revisions')
SaveCrashes(q) == WriteRevision(q) /\ UNCHANGED current

--------------------------------------------------------------------------------
Active == {"pending", "running", "prepared", "sent"}

Ready == current # 0 /\ (revisions[current].key # NoKey \/ Protocol[revisions[current].binding] = LocalProtocol)

HasUnknownTest == \E t \in Tests : test[t] = "outcome_unknown" /\ frozen[t] = current

(* POST /settings/provider/test *)
RequestTest(t, riskConfirmed) ==
  /\ test[t] = "none"
  /\ Ready
  /\ \A u \in Tests : test[u] \notin Active
  /\ HasUnknownTest => riskConfirmed
  /\ test' = [test EXCEPT ![t] = "pending"]
  /\ frozen' = [frozen EXCEPT ![t] = current]
  /\ UNCHANGED <<revisions, current, held>>

TestStep(t, from, to) ==
  /\ test[t] = from
  /\ test' = [test EXCEPT ![t] = to]
  /\ UNCHANGED <<revisions, current, frozen>>

StaleEndpoint(t) ==   \* mutant: a revision is known by its endpoint
  revisions[frozen[t]].binding # revisions[current].binding
Stale(t) == frozen[t] # current

(* The worker loads the frozen profile and compares it with the saved one. *)
StartTest(t) == TestStep(t, "pending", IF Stale(t) THEN "failed" ELSE "running") /\ UNCHANGED held

(* resolve_provider_credentials: the key of exactly the frozen revision. *)
ResolveCredentials(t) ==
  /\ TestStep(t, "running", "prepared")
  /\ held' = [held EXCEPT ![t] = revisions[frozen[t]].key]

(* The transaction of authorize, which saves cannot enter (lifecycle lock). *)
AuthorizeTest(t) == TestStep(t, "prepared", IF Stale(t) THEN "failed" ELSE "sent") /\ UNCHANGED held

TestAnswered(t) ==
  \E outcome \in {"succeeded", "failed", "outcome_unknown"} :
     TestStep(t, "sent", outcome) /\ UNCHANGED held

(* POST /attempts/{id}/resolve with retry_accept_risk *)
RetryTest(t) == TestStep(t, "outcome_unknown", "pending") /\ UNCHANGED held

Init ==
  /\ revisions = <<>> /\ current = 0
  /\ test = [t \in Tests |-> "none"]
  /\ frozen = [t \in Tests |-> 0]
  /\ held = [t \in Tests |-> NoKey]

Next ==
  \/ \E q \in Requests : Save(q) \/ SaveCrashes(q)
  \/ \E t \in Tests : \/ \E risk \in BOOLEAN : RequestTest(t, risk)
                      \/ StartTest(t) \/ ResolveCredentials(t) \/ AuthorizeTest(t)
                      \/ TestAnswered(t) \/ RetryTest(t)

Spec == Init /\ [][Next]_configVars

--------------------------------------------------------------------------------
(* Every variable has a value its file or column can hold. *)
TypeOK ==
  /\ revisions \in Seq([binding : Bindings, key : Keys \cup {NoKey}, idem : Nat,
                        generation : Nat, previous : Nat, typed : BOOLEAN, cleared : BOOLEAN])
  /\ current \in 0 .. Len(revisions)
  /\ \A r \in DOMAIN revisions : revisions[r].previous < r
  /\ test \in [Tests -> Active \cup {"none", "succeeded", "failed", "outcome_unknown"}]
  /\ frozen \in [Tests -> 0 .. Len(revisions)]
  /\ held \in [Tests -> Keys \cup {NoKey}]

(* The user's last word on the key of the protocol of revision r: the      *)
(* latest revision up to r that brought a key or cleared it, 0 for none.   *)
LastWord(r) ==
  LET said == {s \in OfProtocol(Chain[r], Protocol[revisions[r].binding]) :
                 revisions[s].typed \/ revisions[s].cleared}
  IN  IF said = {} THEN 0 ELSE Max(said)

(* A key is only ever sent to the endpoint it was entered for: a revision  *)
(* with a key has the user's last word for its protocol, entered for the   *)
(* same endpoint, protocol and auth mode, whatever was switched between,   *)
(* cleared, crashed or sent twice (providers/settings.py:325-337).         *)
KeyStaysWithEndpoint ==
  \A r \in DOMAIN revisions : revisions[r].key # NoKey =>
    LET s == LastWord(r)
    IN  RevisionSource(r) = IF s = 0 THEN Source(LegacyBinding, LegacyKey) ELSE RevisionSource(s)

(* A save that was sent again, after any other save and any crash, is not  *)
(* executed a second time (providers/settings.py:290-310).                 *)
SavedOnce ==
  \A r, s \in Chain[current] : revisions[r].idem = revisions[s].idem => r = s

(* The request of a connection test leaves with the key of the             *)
(* configuration that is saved at that moment, although the worker read    *)
(* the key two transactions before (providers/connection.py:102-110).      *)
TestUsesSavedKey ==
  [][\A t \in Tests : test[t] # "sent" /\ test'[t] = "sent" => held[t] = revisions[current].key]_configVars
================================================================================
