------------------------------ MODULE Navigation ------------------------------
(***************************************************************************)
(* The address bar, the browser's history and the mounted page of the web  *)
(* client.  The page changes when the fragment of the address does; while  *)
(* a form with unsaved inputs is mounted the watcher first takes the       *)
(* browser back to the accepted address, asks, and only then moves on.     *)
(*                                                                         *)
(* The browser applies a traversal (history.go, Back, Forward) some time   *)
(* after it is asked for and runs the popstate handler as it does; a       *)
(* hashchange event waits in a queue.  The watcher and the answers of the  *)
(* server do not wait for either; the user is slower than the browser.     *)
(***************************************************************************)
EXTENDS Integers, Sequences, SequencesExt

CONSTANTS
  Hashes,     \* the fragments of the pages
  MaxActs     \* bound: navigations of the user

\* "none" stands for the fragment of an entry without a position.
NavigationAssumption == MaxActs \in Nat /\ Hashes # {} /\ "none" \notin Hashes

VARIABLES
  browser,    \* entries of the session history, place, traversals, events
  watcher,    \* what watchGuardedHash knows and what it waits for
  form,       \* the mounted page and its form
  acts        \* navigations of the user so far

navVars == <<browser, watcher, form, acts>>

None == [index |-> -1, hash |-> "none"]
Position(i, h) == [index |-> i, hash |-> h]
Entry(h, state) == [hash |-> h, state |-> state]

--------------------------------------------------------------------------------
(* The handlers run to their next await: they map a record s with the      *)
(* fields of browser, watcher and form to the one they leave.              *)

Here(s) == s.entries[s.at].hash

(* A new entry; the forward branch is gone. *)
Pushed(s, h, state) ==
  [s EXCEPT !.entries = Append(SubSeq(@, 1, s.at), Entry(h, state)), !.at = @ + 1]
(* location.hash = h, a link, or the address bar *)
Edited(s, h) == IF h = Here(s) THEN s ELSE [Pushed(s, h, None) EXCEPT !.events = Append(@, h)]
Stamped(s) == [s EXCEPT !.entries[s.at].state = s.current]

(* append *)
(* mutant: the forward branch is taken for known *)
AppendedKeeping(s, h) ==
  LET position == Position(s.current.index + 1, h)
  IN [s EXCEPT !.known = {p \in @: p.index # position.index} \cup {position}, !.current = position]
Appended(s, h) ==
  LET position == Position(s.current.index + 1, h)
  IN [s EXCEPT !.known = {p \in @: p.index < position.index} \cup {position}, !.current = position]

Recorded(s, position) ==
  [s EXCEPT !.current = position, !.known = {p \in @: p.index # position.index} \cup {position}]

Observe(s, h) ==
  LET trip == SelectInSeq(s.traversals, LAMBDA p: p.hash = h)
      state == s.entries[s.at].state
  IN IF trip > 0 THEN Recorded([s EXCEPT !.traversals = RemoveAt(@, trip)], s.traversals[trip])
     ELSE IF h = Here(s) /\ state.hash = h THEN Recorded(s, state)
     ELSE IF h = Here(s) THEN Stamped(Appended(s, h)) ELSE Appended(s, h)

(* The page of the address is mounted; the form of the old one is gone. *)
Commit(s, h) == [s EXCEPT !.route = h, !.dirty = FALSE, !.active = FALSE, !.lost = s.dirty /\ ~s.yes]
Rest(s) == [s EXCEPT !.pc = "idle", !.yes = FALSE]

(* reach: where the move is awaited, moving is set. *)
Reach(s, position) ==
  IF s.current = position THEN [s EXCEPT !.accepted = s.current]
  ELSE IF position \in s.known
       THEN [s EXCEPT !.moving = TRUE, !.trips = Append(@, position.index - s.current.index)]
  ELSE LET t == Appended(s, position.hash)
       IN Pushed([t EXCEPT !.accepted = t.current], position.hash, t.current)

(* The rest of onChange after each of its awaits. *)
ReachTarget(s) ==
  LET t == Reach(s, s.target)
  IN IF t.moving THEN [t EXCEPT !.pc = "target"] ELSE Rest(Commit(t, t.accepted.hash))
(* mutant: the answer is not looked at *)
AnsweredAny(s) ==
  LET t == Reach(s, s.accepted)
  IN IF t.moving THEN [t EXCEPT !.pc = "answered", !.go = TRUE] ELSE ReachTarget(t)
Answered(s) ==
  LET t == Reach(s, s.accepted)
  IN IF t.moving THEN [t EXCEPT !.pc = "answered"] ELSE IF t.go THEN ReachTarget(t) ELSE Rest(t)
(* requestNavigation *)
Ask(s) == IF s.active THEN [s EXCEPT !.pc = "ask"] ELSE Answered([s EXCEPT !.go = TRUE])
ReachFirst(s) ==
  LET t == Reach(s, s.accepted)
  IN IF t.moving THEN [t EXCEPT !.pc = "first"] ELSE Ask(t)
(* The rest of onClick. *)
Clicked(s) ==
  LET t == Reach(s, s.accepted)
  IN IF t.moving THEN [t EXCEPT !.pc = "clicked"]
     ELSE IF t.go THEN Edited(Rest(t), t.target.hash) ELSE Rest(t)

(* moving is resolved: reach returns the current position. *)
Moved(s) ==
  LET t == [s EXCEPT !.moving = FALSE, !.accepted = s.current]
  IN CASE s.pc = "first" -> Ask(t)
       [] s.pc = "answered" -> IF t.go THEN ReachTarget(t) ELSE Rest(t)
       [] s.pc = "target" -> Rest(Commit(t, t.accepted.hash))
       [] s.pc = "clicked" -> IF t.go THEN Edited(Rest(t), t.target.hash) ELSE Rest(t)

OnPopState(s) ==
  LET position == s.entries[s.at].state
  IN IF position.hash # Here(s) THEN s
     ELSE IF position.hash # s.current.hash THEN [s EXCEPT !.traversals = Append(@, position)]
     ELSE LET t == Recorded(s, position)
          IN IF s.moving THEN Moved(t)
             ELSE IF s.pc = "idle" /\ position.hash = s.accepted.hash THEN [t EXCEPT !.accepted = position]
             ELSE t

OnChange(s, h) ==
  LET t == Observe(s, h)
  IN IF h # Here(t) THEN t
     ELSE IF t.moving THEN Moved(t)
     ELSE IF t.pc # "idle" \/ t.current.hash = t.accepted.hash THEN t
     ELSE IF ~t.active THEN Commit([t EXCEPT !.accepted = t.current], t.current.hash)
     ELSE ReachFirst([t EXCEPT !.target = t.current, !.go = FALSE])

--------------------------------------------------------------------------------
State == [f \in DOMAIN browser \cup DOMAIN watcher \cup DOMAIN form |->
            IF f \in DOMAIN browser THEN browser[f] ELSE IF f \in DOMAIN watcher THEN watcher[f] ELSE form[f]]
Becomes(s) ==
  /\ browser' = [f \in DOMAIN browser |-> s[f]]
  /\ watcher' = [f \in DOMAIN watcher |-> s[f]]
  /\ form' = [f \in DOMAIN form |-> s[f]]

(* The user, when the browser has come to rest. *)
Settled == browser.trips = <<>> /\ browser.events = <<>>
Acts == Settled /\ acts < MaxActs /\ acts' = acts + 1
EditAddress(h) == Acts /\ h # Here(State) /\ Becomes(Edited(State, h))
Traverse(delta) == Acts /\ Becomes([State EXCEPT !.trips = Append(@, delta)])

ClickLink(h) ==
  LET s == State
  IN /\ Acts /\ s.pc = "idle" /\ h # Here(s)
     /\ Becomes(IF h = s.accepted.hash \/ ~s.active THEN Edited(s, h)
                ELSE [s EXCEPT !.pc = "clickAsk", !.target = Position(-1, h), !.go = FALSE])

(* A form renders: activeRef follows its inputs. *)
Types ==
  /\ Settled /\ ~form.dirty /\ watcher.pc \notin {"ask", "clickAsk"}
  /\ Becomes([State EXCEPT !.dirty = TRUE, !.active = TRUE]) /\ UNCHANGED acts
(* The answer of the server to an earlier save. *)
Saved == form.dirty /\ Becomes([State EXCEPT !.dirty = FALSE, !.active = FALSE]) /\ UNCHANGED acts

(* The dialog's buttons; some forms keep their inputs when the user leaves *)
(* them, and are active again with the next rendering.                     *)
Answer(yes, keeps) ==
  LET s == State
      t == [s EXCEPT !.go = yes, !.yes = yes, !.dirty = IF yes /\ ~keeps THEN FALSE ELSE @,
                     !.active = IF yes /\ ~keeps THEN FALSE ELSE s.dirty]
  IN /\ Settled /\ UNCHANGED acts
     /\ \/ s.pc = "ask" /\ Becomes(Answered(t))
        \/ s.pc = "clickAsk" /\ Becomes(Clicked(t))

(* The browser. *)
Arrive ==
  LET s == [State EXCEPT !.trips = Tail(@)]
      to == s.at + Head(browser.trips)
      t == [s EXCEPT !.at = to]
  IN /\ browser.trips # <<>> /\ UNCHANGED acts
     /\ Becomes(IF to \notin DOMAIN s.entries THEN s
                ELSE OnPopState([t EXCEPT !.events = IF Here(t) = Here(s) THEN @ ELSE Append(@, Here(t))]))

HashChange ==
  /\ browser.events # <<>> /\ UNCHANGED acts
  /\ Becomes(OnChange([State EXCEPT !.events = Tail(@)], Head(browser.events)))

(* The page is loaded at an entry of a history that may have been stamped  *)
(* by an earlier load.                                                     *)
Init ==
  /\ acts = 0
  /\ \E h, g \in Hashes, i \in 1 .. 2, n \in 1 .. 2:
       LET here == Position(IF n = 1 THEN 0 ELSE i - 1, IF i = 1 THEN h ELSE g)
           stack == <<Entry(h, Position(0, h)), Entry(g, Position(1, g))>>
       IN /\ i <= n /\ h # g
          /\ browser = [entries |-> SubSeq(stack, 1, n), at |-> i, trips |-> <<>>, events |-> <<>>]
          /\ watcher = [accepted |-> here, current |-> here, known |-> {here}, traversals |-> <<>>,
                        moving |-> FALSE, pc |-> "idle", target |-> None, go |-> FALSE, yes |-> FALSE]
          /\ form = [route |-> here.hash, dirty |-> FALSE, active |-> FALSE, lost |-> FALSE]

Next ==
  \/ \E h \in Hashes: EditAddress(h) \/ ClickLink(h)
  \/ \E delta \in {-1, 1}: Traverse(delta)
  \/ Types \/ Saved
  \/ \E yes, keeps \in BOOLEAN: Answer(yes, keeps)
  \/ Arrive \/ HashChange

Spec == Init /\ [][Next]_navVars

--------------------------------------------------------------------------------
TypeOK ==
  /\ acts \in 0 .. MaxActs
  /\ browser.at \in DOMAIN browser.entries
  /\ form.route \in Hashes
  /\ watcher.pc \in {"idle", "first", "ask", "answered", "target", "clickAsk", "clicked"}

(* What a form holds is dropped only after its user said so: whatever      *)
(* history he went through while he was asked, and whenever a save ended.  *)
InputsNotLost == ~form.lost

(* At rest the address is that of the mounted page, which is the one the   *)
(* watcher takes for accepted; and no move is awaited that the browser     *)
(* will never make, after which no navigation would be handled any more.   *)
AddressIsThePage ==
  /\ Settled /\ watcher.pc = "idle" =>
       Here(State) = form.route /\ watcher.accepted.hash = form.route
  /\ watcher.moving => ~Settled
================================================================================
