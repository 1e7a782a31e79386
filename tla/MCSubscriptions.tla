-------------------------- MODULE MCSubscriptions --------------------------
(* Subscriptions with the constants TLC needs: see the .cfg files. *)
EXTENDS Subscriptions

CONSTANTS main, worker

TwoThreads == {main, worker}

Plain == <<"a", "b">>
Single == <<"a", "+">>
Multi == <<"a", "#">>

ThreeFilters == {Plain, Single, Multi}

(* Ordinary topics, one below "a/b", the parent of "a/#", a reserved one. *)
SomeTopics == {<<"a">>, <<"a", "b">>, <<"a", "b", "c">>, <<"a", "$S">>, <<"c", "b">>}

(* main alone uses a/b and a/#, worker a/+: each removes what it reads. *)
Owner == [f \in ThreeFilters |-> IF f = Single THEN {worker} ELSE {main}]

(* Everybody may remove everything. *)
Everybody == [f \in ThreeFilters |-> {main, worker}]
=============================================================================
