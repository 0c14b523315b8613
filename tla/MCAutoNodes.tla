----------------------------- MODULE MCAutoNodes ----------------------------
(***************************************************************************)
(* A chain that sends a rejected submission back runs without crashes: a   *)
(* row that review left behind in an earlier round would be restored and   *)
(* judged again.  One handler answers where a crash can fall: two would    *)
(* send the message on twice.                                              *)
(***************************************************************************)
EXTENDS AutoNodes

CONSTANTS h1, h2, u1, u2

Flow(reject, unresolved, handlers, info, call, crashes, stops, shared) ==
  [reject |-> reject, unresolved |-> unresolved, handlers |-> handlers, info |-> info,
   call |-> call, crashes |-> crashes, stops |-> stops, shared |-> shared]

MCFlows ==
  {Flow("terminate", "human", {h1}, FALSE, "httpCall", 1, FALSE, FALSE),
   Flow("terminate", "pass", {}, TRUE, "startProcess", 1, TRUE, TRUE),
   Flow("terminate", "reject", {}, TRUE, "httpCall", 1, FALSE, FALSE),
   Flow("terminate", "human", {}, FALSE, "ccTask", 2, FALSE, TRUE),
   Flow("toStarter", "reject", {}, FALSE, "httpCall", 0, TRUE, FALSE),
   Flow("toStarter", "human", {h1, h2}, TRUE, "ccTask", 0, FALSE, FALSE)}

Said1(word, marked, both) == [word |-> word, marked |-> marked, both |-> both]
Lines == {l \in [word : {"PASS", "REJECT", "none"}, marked : BOOLEAN, both : BOOLEAN] :
            l.both => l.word # "none" /\ ~l.marked}
Echo == {l \in Lines : l.both}
AllOutputs == UNION {[1 .. n -> Lines] : n \in 0 .. 3}

MCOutputs == {<<Said1("PASS", TRUE, FALSE)>>, <<Said1("PASS", FALSE, TRUE), Said1("REJECT", FALSE, FALSE)>>, <<>>}

(* Repeating the instructions decides nothing, and takes nothing away from *)
(* what is decided.                                                        *)
ASSUME EchoDecidesNothing ==
  \A output \in AllOutputs :
    ExtractDecision(output) = ExtractDecision(SelectSeq(output, LAMBDA l : l \notin Echo))

(* A line that only begins with the marker never outweighs one that is it, *)
(* before or after.                                                        *)
ASSUME MarkerDecides ==
  \A output \in AllOutputs :
    (\E n \in DOMAIN output : output[n].marked /\ output[n].word # "none")
      => ExtractDecision(output) = ExtractDecision(SelectSeq(output, LAMBDA l : l.marked))
=============================================================================
