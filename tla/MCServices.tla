-------------------------------- MODULE MCServices --------------------------------
(* A small instance of Services for TLC; what is not here is in Services.cfg. *)
EXTENDS Services, TLC

\* Two jobs under one instance budget, the third without cost control; a
\* charge may be above and below a reservation.
MCAttemptJob == [a \in {"a1", "a2", "a3"} |-> IF a = "a3" THEN "j2" ELSE "j1"] @@ ("a4" :> "j3")
MCReserve == "j1" :> 2 @@ "j2" :> 1 @@ "j3" :> 1

\* Two endpoints of one protocol, another protocol and the local one; keys
\* that are typed, carried along or cleared.
MCProtocol == "a1" :> "A" @@ "a2" :> "A" @@ "b" :> "B" @@ "l" :> "local"
Ask(idem, binding, key, clear) == [idem |-> idem, binding |-> binding, key |-> key, clear |-> clear]
MCRequests == {Ask(1, "a1", "k1", FALSE), Ask(2, "a1", "none", FALSE), Ask(3, "a2", "none", FALSE),
               Ask(4, "b", "k2", FALSE), Ask(5, "l", "none", FALSE), Ask(6, "a1", "none", TRUE),
               Ask(7, "b", "none", FALSE)}

\* One model of the exclusive backend and one shared by two units.
MCBackend == "m1" :> "mlx" @@ "m2" :> "llama.cpp"
MCUnitModel == "u1" :> "m1" @@ "u2" :> "m2" @@ "u3" :> "m2"

\* Two documents, one with a child job; two jobs share a model.
MCOwner == "a" :> "a" @@ "b" :> "b" @@ "c" :> "a"
MCJobModel == "a" :> "m" @@ "b" :> "m" @@ "c" :> "n"
MCModelSize == "m" :> 10 @@ "n" :> 6

\* Two forms of a field each.
MCFormOf == "f" :> "a" @@ "g" :> "b"
MCOrder == <<"service", "a", "b">>

\* The component that runs starts in all its states, the others in one; the
\* values of the settings page are symmetric.
MCInit ==
  /\ Init
  /\ active # "navigation" => Len(browser.entries) = 1 /\ form.route = "a"
  /\ active # "scheduler" => percent = 50
  /\ stored.prefs.value["f"] = "v" /\ service.protocol = "P" /\ service.endpoint = "e1"

MCSpec == MCInit /\ [][Next]_vars /\ Fairness
================================================================================
