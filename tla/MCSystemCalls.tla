--------------------------- MODULE MCSystemCalls ---------------------------
(* The test programs for TLC.                                                *)
EXTENDS TestPrograms, TLC

StartMC == <<"start4", 0>>

TextsMC == {"interesting", "line", "NL", "abcdefghijklm", "a", "wonderful",
            "This is a test", "Does it work?", "One last chance", "first", "second",
            "third", "something different", "another change", "one last change",
            "xxx"} \cup {Flights[i] : i \in DOMAIN Flights}

TracksMC == 0 :> 16 @@ 1 :> 32

\* A line that is longer than the next.
InputMC == [t \in 0 .. 3 |-> <<<<"first", "line", "NL">>, <<"second", "NL">>>>]

\* With 2 mailboxes for the calls, and with one for each process of the largest test.
PoolsMC == {22, 32}
=============================================================================
