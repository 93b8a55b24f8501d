---------------------------- MODULE MCScheduler ----------------------------
(***************************************************************************)
(* Instances of Scheduler: more addresses than slots, an address listed    *)
(* twice, a refused line, the address 0.0.0.0, and an empty input.         *)
(***************************************************************************)
EXTENDS Scheduler
CONSTANT Bad

SomeInputs == { <<>>, <<1>>, <<1, 2, 3>>, <<3, 1, 2>>, <<1, 1, 2, 3>>, <<1, Bad, 2>>, <<Bad>>,
                <<0>>, <<1, 0, 2>>, <<0, 1>> }
PlainInputs == { <<1, 2>> }
NoFailures == {}
OneFailure == {3}
=============================================================================
