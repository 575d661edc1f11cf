-------------------------- MODULE MCResultVerifier --------------------------
(* Instances of ResultVerifier for TLC.                                    *)
EXTENDS ResultVerifier

MCVariable == {1, 2}

\* One that only the cube <<-2>> refutes and one that it does not.
MCFormulas == {<< <<1, 2>>, <<-1, 2>> >>, << <<1, 2>>, <<-1, -2>> >>}
MCCubes == {<<>>, <<-2>>}

MCLineClause == {<<>>, <<1>>, <<2, 2>>, <<1, -1>>}
MCLineHints == {<<>>, <<1, 2>>, <<3, 1, 2>>, <<3, 2>>, <<4, 3>>}

\* An honest manifest, and one that is wrong in each way.
MCManifests == {Honest} \cup {[Honest EXCEPT ![field] = FALSE] : field \in DOMAIN Honest}
=============================================================================
