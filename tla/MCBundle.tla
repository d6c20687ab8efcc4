----------------------------- MODULE MCBundle ------------------------------
(* A small instance of Bundle for TLC. *)
EXTENDS Bundle, TLC

CONSTANTS x, y

\* Nothing tells one process from the other.
Alike == Permutations(Processes)

\* Nothing or both.
SomeSets == {{}, {x, y}}

Test(id) == [of |-> id, kind |-> "test"]
Exempt(id) == [of |-> id, kind |-> "exempt"]

\* Sources that are let in, with a file that is exempt from the scan, and sources with one
\* import more: past the API to the host, to another plugin, to a test.
SomeSources ==
    LET good == {<<File(x), File("api")>>, <<File("host"), File("api")>>, <<File(x), Exempt(x)>>}
        bad == {<<File("api"), File("host")>>, <<File(x), File(y)>>, <<File(x), Test(x)>>}
    IN {good} \cup {good \cup {e} : e \in bad}

=============================================================================
