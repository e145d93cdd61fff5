---------------------------- MODULE SettingsForms ----------------------------
(***************************************************************************)
(* The settings page of the web client: several forms over one row of      *)
(* preferences, each saving its own fields, and the form of the            *)
(* translation service, which keeps the inputs of every protocol that was  *)
(* visited.  Leaving the page asks about all of them and may save them one *)
(* after the other.                                                        *)
(*                                                                         *)
(* Another tab changes the same rows; a request may be refused as stale,   *)
(* and its connection may break before or after it was executed.  Of a     *)
(* service only its endpoint and its key are kept (the authentication is   *)
(* treated like the endpoint); a key is the protocol and endpoint it was   *)
(* typed for.  The rules of the server are in ProviderConfig.              *)
(***************************************************************************)
EXTENDS Naturals, Sequences, SequencesExt, TLC

CONSTANTS
  Forms,                  \* the forms over the preferences
  Fields, FormOf,         \* the preferences and the form that edits each
  Values,                 \* of a preference
  Protocols, Endpoints,   \* of translation services
  Order,                  \* of all forms, as they registered with the page
  MaxSaves, MaxActs       \* bounds: changes of each row, acts of the user

SettingsAssumption ==
  /\ Forms \cap {"service", "no", "asked", "next", "left"} = {} /\ "unset" \notin Values \cup Endpoints
  /\ FormOf \in [Fields -> Forms] /\ Order \in Seq(Forms \cup {"service"})
  /\ ToSet(Order) = Forms \cup {"service"}
  /\ MaxSaves \in Nat /\ MaxActs \in Nat /\ Protocols # {} /\ Endpoints # {}

VARIABLES
  stored,    \* on the server: the two rows, each with its generation
  prefs,     \* the preferences shown and remembered, the forms' inputs and calls
  service,   \* the form of the translation service
  leaving,   \* the leave dialog: where it is, the forms it still has to save
  inputs     \* history: what was typed and neither saved nor dropped; acts

settingsVars == <<stored, prefs, service, leaving, inputs>>

Unset == "unset"
NoneTyped == <<>>
NoCall == [at |-> "none"]
NoDraft == [endpoint |-> Unset, key |-> NoneTyped, clear |-> FALSE]
(* An input equal to what is shown is none. *)
Still(field, row) == [f \in Fields |-> IF field[f] = row.value[f] THEN Unset ELSE field[f]]
Own(s) == {f \in Fields: FormOf[f] = s}

--------------------------------------------------------------------------------
(* The forms over the preferences.                                         *)

Value(f) == IF prefs.edits[f] = Unset THEN prefs.shown.value[f] ELSE prefs.edits[f]
DirtyForm(s) == \E f \in Own(s): Value(f) # prefs.shown.value[f]
CanSaveForm(s) == prefs.call[s] = NoCall /\ s \notin prefs.failed

(* Each rendering keeps the newer of the remembered row and the given one. *)
Rendered(p, row) == [p EXCEPT !.shown = row, !.latest = IF row.gen >= @.gen THEN row ELSE @]

Acts == leaving.at = "no" /\ inputs.acts < MaxActs

EditField(f, v) ==
  /\ Acts /\ prefs.call[FormOf[f]] = NoCall /\ Value(f) # v
  /\ prefs' = [prefs EXCEPT !.edits[f] = v]
  /\ inputs' = [inputs EXCEPT !.acts = @ + 1, !.field[f] = IF v = prefs.shown.value[f] THEN Unset ELSE v]
  /\ UNCHANGED <<stored, service, leaving>>

(* save: a PATCH of all fields of the form, with the latest generation     *)
(* that any form has seen.                                                 *)
SendForm(s) ==
  prefs' = [prefs EXCEPT !.call[s] =
    [at |-> "sent", gen |-> prefs.latest.gen, value |-> [f \in Own(s) |-> Value(f)]]]
SaveForm(s) ==
  /\ leaving.at = "no" /\ DirtyForm(s) /\ CanSaveForm(s) /\ SendForm(s)
  /\ UNCHANGED <<stored, service, leaving, inputs>>

ServerPatches(s) ==
  LET call == prefs.call[s]
      row == [gen |-> stored.prefs.gen + 1, value |-> call.value @@ stored.prefs.value]
  IN /\ call.at = "sent"
     /\ IF call.gen # stored.prefs.gen
          THEN prefs' = [prefs EXCEPT !.call[s] = [at |-> "refused"]] /\ UNCHANGED stored
          ELSE /\ stored.prefs.gen < MaxSaves /\ stored' = [stored EXCEPT !.prefs = row]
               /\ prefs' = [prefs EXCEPT !.call[s] = [at |-> "accepted", row |-> row]]
     /\ UNCHANGED <<service, leaving, inputs>>

(* saveAll goes on to the next form, or stays in the dialog. *)
Continued(s, ok) ==
  IF leaving.at = s THEN [leaving EXCEPT !.at = IF ok THEN "next" ELSE "asked"] ELSE leaving

FormSaved(s) ==
  /\ prefs.call[s].at = "accepted"
  /\ prefs' = [Rendered(prefs, prefs.call[s].row) EXCEPT
       !.latest = prefs.call[s].row, !.call[s] = NoCall,
       !.edits = [f \in Fields |-> IF f \in Own(s) THEN Unset ELSE @[f]]]
  /\ inputs' = [inputs EXCEPT !.field =
       Still([f \in Fields |-> IF f \in Own(s) THEN Unset ELSE @[f]], prefs.call[s].row)]
  /\ leaving' = Continued(s, TRUE)
  /\ UNCHANGED <<stored, service>>

FormFailed(s) ==
  /\ prefs.call[s] # NoCall
  /\ prefs' = [prefs EXCEPT !.call[s] = NoCall, !.failed = @ \cup {s}]
  /\ leaving' = Continued(s, FALSE)
  /\ UNCHANGED <<stored, service, inputs>>

(* The error is cleared and the row is read again; the inputs stay. *)
RefreshForm(s) ==
  /\ Acts /\ prefs.call[s] = NoCall
  /\ prefs' = [prefs EXCEPT !.failed = @ \ {s}, !.read = [at |-> "asked"]]
  /\ inputs' = [inputs EXCEPT !.acts = @ + 1]
  /\ UNCHANGED <<stored, service, leaving>>
PreferencesRead ==
  /\ prefs.read.at = "asked"
  /\ prefs' = [prefs EXCEPT !.read = [at |-> "answered", row |-> stored.prefs]]
  /\ UNCHANGED <<stored, service, leaving, inputs>>
PreferencesArrive ==
  /\ prefs.read.at = "answered" /\ prefs' = [Rendered(prefs, prefs.read.row) EXCEPT !.read = NoCall]
  /\ inputs' = [inputs EXCEPT !.field = Still(@, prefs.read.row)]
  /\ UNCHANGED <<stored, service, leaving>>

--------------------------------------------------------------------------------
(* The form of the translation service.                                    *)

Known(p) == service.base.saved[p].endpoint # Unset                 \* storedFor
DefaultIn(row, p) == IF row.saved[p].endpoint # Unset THEN row.saved[p].endpoint ELSE CHOOSE e \in Endpoints: TRUE
Default(p) == DefaultIn(service.base, p)
Credentials == service.base.saved[IF Known(service.protocol) THEN service.protocol ELSE service.base.protocol]
Fits == Known(service.protocol) /\ service.endpoint = Credentials.endpoint
MustRebind == Credentials.keyed /\ ~Fits /\ service.key = NoneTyped /\ ~service.clear
Differs(p, d) == d # NoDraft /\ (d.endpoint # Default(p) \/ d.key # NoneTyped \/ d.clear)
OtherDrafts == \E p \in Protocols \ {service.protocol}: Differs(p, service.drafts[p])
DirtyService ==
  \/ service.protocol # service.base.protocol \/ service.endpoint # Default(service.protocol)
  \/ service.key # NoneTyped \/ service.clear
  \/ \E p \in Protocols: Differs(p, service.drafts[p])
CanSaveService ==
  service.call = NoCall /\ ~service.refresh /\ service.latest = NoCall /\ ~MustRebind

Types == Acts /\ service.call = NoCall /\ inputs' = [inputs EXCEPT !.acts = @ + 1]

(* mutant: the key stays in the form when the endpoint is changed *)
TypedAddress(e) == [service EXCEPT !.endpoint = e]
Addressed(e) == [service EXCEPT !.endpoint = e, !.key = NoneTyped]
TypeEndpoint(e) ==
  /\ Acts /\ service.call = NoCall /\ e # service.endpoint
  /\ service' = Addressed(e)
  /\ inputs' = [inputs EXCEPT !.acts = @ + 1, !.endpoint[service.protocol] = IF e = Default(service.protocol) THEN Unset ELSE e]
  /\ UNCHANGED <<stored, prefs, leaving>>
TypeKey ==
  /\ Types /\ ~service.clear
  /\ service' = [service EXCEPT !.key = <<service.protocol, service.endpoint>>]
  /\ UNCHANGED <<stored, prefs, leaving>>
TickClear ==
  /\ Types /\ service' = [service EXCEPT !.clear = ~@, !.key = NoneTyped]
  /\ UNCHANGED <<stored, prefs, leaving>>

(* changeProtocol *)
(* mutant: the inputs of the protocol that is left are not kept *)
SwitchedWithoutDraft(p) ==
  LET d == service.drafts[p]
  IN [service EXCEPT !.protocol = p, !.endpoint = IF d = NoDraft THEN Default(p) ELSE d.endpoint,
                     !.key = d.key, !.clear = d.clear]
Switched(p) ==
  LET d == service.drafts[p]
      old == [endpoint |-> service.endpoint, key |-> service.key, clear |-> service.clear]
  IN [service EXCEPT !.drafts[service.protocol] = old, !.protocol = p,
        !.endpoint = IF d = NoDraft THEN Default(p) ELSE d.endpoint, !.key = d.key, !.clear = d.clear]
SwitchProtocol(p) ==
  /\ Types /\ p # service.protocol /\ service' = Switched(p)
  /\ UNCHANGED <<stored, prefs, leaving>>

WithoutKeys(drafts) == [p \in Protocols |-> [drafts[p] EXCEPT !.key = NoneTyped]]

(* save *)
SendService ==
  service' = [service EXCEPT
    !.call = [at |-> "sent", gen |-> service.base.gen, protocol |-> service.protocol,
              endpoint |-> service.endpoint, key |-> service.key, clear |-> service.clear],
    !.key = NoneTyped,
    !.drafts[service.protocol] = [endpoint |-> service.endpoint, key |-> NoneTyped, clear |-> service.clear]]
SaveService ==
  /\ leaving.at = "no" /\ DirtyService /\ CanSaveService /\ SendService
  /\ UNCHANGED <<stored, prefs, leaving, inputs>>

ServerPuts ==
  LET call == service.call
      had == stored.service.saved[call.protocol]
      same == had.endpoint = call.endpoint
      row == [gen |-> stored.service.gen + 1, protocol |-> call.protocol,
              saved |-> [stored.service.saved EXCEPT ![call.protocol] =
                [endpoint |-> call.endpoint, keyed |-> call.key # NoneTyped \/ (had.keyed /\ same /\ ~call.clear)]]]
      rebind == had.keyed /\ ~same /\ call.key = NoneTyped /\ ~call.clear
  IN /\ call.at = "sent"
     /\ IF call.gen # stored.service.gen \/ rebind
          THEN service' = [service EXCEPT !.call = [at |-> "refused"]] /\ UNCHANGED stored
          ELSE /\ stored.service.gen < MaxSaves /\ stored' = [stored EXCEPT !.service = row]
               /\ service' = [service EXCEPT !.call = [at |-> "accepted", row |-> row]]
     /\ UNCHANGED <<prefs, leaving, inputs>>

(* applyLatest *)
Applied(row, drafts) ==
  [service EXCEPT !.base = row, !.latest = NoCall, !.refresh = FALSE, !.call = NoCall, !.key = NoneTyped,
     !.protocol = row.protocol, !.endpoint = row.saved[row.protocol].endpoint, !.clear = FALSE,
     !.drafts = drafts]
AppliedKeeping(row) ==
  [service EXCEPT !.base = row, !.latest = NoCall, !.refresh = FALSE, !.key = NoneTyped,
     !.drafts = WithoutKeys(@)]

ServiceSaved ==
  LET row == service.call.row
  IN /\ service.call.at = "accepted"
     /\ service' = Applied(row, [service.drafts EXCEPT ![service.protocol] = NoDraft])
     /\ inputs' = [inputs EXCEPT !.endpoint[service.protocol] = Unset]
     /\ leaving' = Continued("service", TRUE)
     /\ UNCHANGED <<stored, prefs>>
ServiceFailed ==
  /\ service.call.at \in {"sent", "accepted", "refused"}
  /\ service' = [service EXCEPT !.call = NoCall, !.refresh = TRUE]
  /\ leaving' = Continued("service", FALSE)
  /\ UNCHANGED <<stored, prefs, inputs>>

(* readLatest: the row is shown beside the inputs, and the user takes it   *)
(* or keeps his inputs over it.                                            *)
ReadLatest ==
  /\ Types
  /\ service' = [service EXCEPT !.key = NoneTyped, !.drafts = WithoutKeys(@), !.call = [at |-> "reading"]]
  /\ UNCHANGED <<stored, prefs, leaving>>
LatestArrives(works) ==
  /\ service.call.at = "reading"
  /\ service' = [service EXCEPT !.call = NoCall,
                   !.latest = IF works THEN [at |-> "read", row |-> stored.service] ELSE @]
  /\ UNCHANGED <<stored, prefs, leaving, inputs>>
UseLatest(keep) ==
  /\ leaving.at = "no" /\ service.latest # NoCall /\ service.call = NoCall
  /\ service' = IF keep THEN AppliedKeeping(service.latest.row)
                ELSE Applied(service.latest.row, [p \in Protocols |-> NoDraft])
  /\ inputs' = [inputs EXCEPT !.endpoint = [p \in Protocols |->
       IF keep /\ @[p] # DefaultIn(service.latest.row, p) THEN @[p] ELSE Unset]]
  /\ UNCHANGED <<stored, prefs, leaving>>

--------------------------------------------------------------------------------
(* Leaving the page.                                                       *)

Dirty(s) == IF s = "service" THEN DirtyService ELSE DirtyForm(s)
CanSave(s) == IF s = "service" THEN CanSaveService /\ ~OtherDrafts ELSE CanSaveForm(s)
AllForms == Forms \cup {"service"}
Pending == service.call # NoCall \/ \E s \in Forms: prefs.call[s] # NoCall
Leave(at) == leaving' = [at |-> at, rest |-> <<>>]

RequestLeave ==
  /\ leaving.at = "no"
  /\ Leave(IF Pending \/ (\E s \in AllForms: Dirty(s)) THEN "asked" ELSE "left")
  /\ UNCHANGED <<stored, prefs, service, inputs>>
Stay == leaving.at = "asked" /\ Leave("no") /\ UNCHANGED <<stored, prefs, service, inputs>>

DiscardAll ==
  /\ leaving.at = "asked" /\ ~Pending /\ Leave("left")
  /\ prefs' = [prefs EXCEPT !.edits = [f \in Fields |-> IF DirtyForm(FormOf[f]) THEN Unset ELSE @[f]],
                            !.failed = {s \in @: ~DirtyForm(s)}]
  /\ service' = IF DirtyService THEN Applied(service.base, [p \in Protocols |-> NoDraft]) ELSE service
  /\ inputs' = [inputs EXCEPT !.field = [f \in Fields |-> Unset], !.endpoint = [p \in Protocols |-> Unset]]
  /\ UNCHANGED stored

SaveAll ==
  /\ leaving.at = "asked" /\ ~Pending /\ \A s \in AllForms: Dirty(s) => CanSave(s)
  /\ leaving' = [at |-> "next", rest |-> Order]
  /\ UNCHANGED <<stored, prefs, service, inputs>>

(* The loop runs to its next await. *)
NextForm ==
  LET i == SelectInSeq(leaving.rest, Dirty)
      s == leaving.rest[i]
  IN /\ leaving.at = "next"
     /\ \/ i = 0 /\ Leave("left") /\ UNCHANGED <<prefs, service>>
        \/ i > 0 /\ ~CanSave(s) /\ Leave("asked") /\ UNCHANGED <<prefs, service>>
        \/ /\ i > 0 /\ CanSave(s)
           /\ leaving' = [at |-> s, rest |-> SubSeq(leaving.rest, i + 1, Len(leaving.rest))]
           /\ IF s = "service" THEN SendService /\ UNCHANGED prefs ELSE SendForm(s) /\ UNCHANGED service
     /\ UNCHANGED <<stored, inputs>>

--------------------------------------------------------------------------------
(* Another tab. *)
OtherPatches(f, v) ==
  /\ stored.prefs.gen < MaxSaves /\ v # stored.prefs.value[f]
  /\ stored' = [stored EXCEPT !.prefs = [gen |-> @.gen + 1, value |-> [@.value EXCEPT ![f] = v]]]
  /\ UNCHANGED <<prefs, service, leaving, inputs>>
OtherPuts(p, e) ==
  /\ stored.service.gen < MaxSaves
  /\ stored' = [stored EXCEPT !.service = [gen |-> @.gen + 1, protocol |-> p,
                  saved |-> [@.saved EXCEPT ![p] = [endpoint |-> e, keyed |-> TRUE]]]]
  /\ UNCHANGED <<prefs, service, leaving, inputs>>

Init ==
  \E v \in Values, p \in Protocols, e \in Endpoints:
    LET row == [gen |-> 0, value |-> [f \in Fields |-> v]]
        config == [gen |-> 0, protocol |-> p,
                   saved |-> [q \in Protocols |-> [endpoint |-> IF q = p THEN e ELSE Unset, keyed |-> q = p]]]
    IN /\ stored = [prefs |-> row, service |-> config]
       /\ prefs = [shown |-> row, latest |-> row, edits |-> [f \in Fields |-> Unset],
                   call |-> [s \in Forms |-> NoCall], failed |-> {}, read |-> NoCall]
       /\ service = [base |-> config, protocol |-> p, endpoint |-> e, key |-> NoneTyped, clear |-> FALSE,
                     drafts |-> [q \in Protocols |-> NoDraft], call |-> NoCall, refresh |-> FALSE,
                     latest |-> NoCall]
       /\ leaving = [at |-> "no", rest |-> <<>>]
       /\ inputs = [field |-> [f \in Fields |-> Unset], endpoint |-> [q \in Protocols |-> Unset], acts |-> 0]

(* Once the page is left nothing of it runs any more. *)
Next ==
  /\ leaving.at # "left"
  /\ \/ \E f \in Fields, v \in Values: EditField(f, v) \/ OtherPatches(f, v)
     \/ \E s \in Forms: SaveForm(s) \/ ServerPatches(s) \/ FormSaved(s) \/ FormFailed(s) \/ RefreshForm(s)
     \/ PreferencesRead \/ PreferencesArrive
     \/ \E e \in Endpoints: TypeEndpoint(e) \/ \E p \in Protocols: OtherPuts(p, e)
     \/ TypeKey \/ TickClear \/ (\E p \in Protocols: SwitchProtocol(p))
     \/ SaveService \/ ServerPuts \/ ServiceSaved \/ ServiceFailed \/ ReadLatest
     \/ \E b \in BOOLEAN: LatestArrives(b) \/ UseLatest(b)
     \/ RequestLeave \/ Stay \/ DiscardAll \/ SaveAll \/ NextForm

Spec == Init /\ [][Next]_settingsVars

--------------------------------------------------------------------------------
TypeOK ==
  /\ leaving.at \in {"no", "asked", "next", "left"} \cup AllForms
  /\ service.protocol \in Protocols /\ service.endpoint \in Endpoints
  /\ \A f \in Fields: prefs.edits[f] \in Values \cup {Unset}
  /\ inputs.acts \in 0 .. MaxActs

(* A typed key is sent with the protocol and endpoint it was typed for,    *)
(* whatever was switched, refused and refreshed in between.                *)
KeySentWhereTyped ==
  service.call.at = "sent" /\ service.call.key # NoneTyped =>
    service.call.key = <<service.call.protocol, service.call.endpoint>>

(* What was typed is in the page until it is saved or given up (settings-state.tsx *)
(* 87: the summary says so), and when the page has been left nothing is      *)
(* unsaved.                                                                *)
ServiceInput(p) == IF p = service.protocol THEN service.endpoint ELSE service.drafts[p].endpoint
InputsStay ==
  /\ \A f \in Fields: inputs.field[f] # Unset => leaving.at # "left" /\ Value(f) = inputs.field[f]
  /\ \A p \in Protocols:
       inputs.endpoint[p] # Unset => leaving.at # "left" /\ ServiceInput(p) = inputs.endpoint[p]
================================================================================
