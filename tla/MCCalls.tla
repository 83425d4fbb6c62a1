------------------------------ MODULE MCCalls --------------------------------
(***************************************************************************)
(* Calls with every payload class and every verb: each class is varied     *)
(* wherever an exchange carries it, on either side.                        *)
(***************************************************************************)
EXTENDS Calls, CognitivePayloads, OperationPayloads, GraphPayloads, Verbs

MCClasses == CognitiveClasses @@ OperationClasses @@ GraphClasses

(* The classes a request, an answer or an ERROR contains, at most six       *)
(* levels deep.                                                            *)
MCFocus ==
  LET classes == MCClasses
      of(c) == {classes[c][f].of : f \in DOMAIN classes[c]}
      nests == UNION {{c} \X ((of(c) \cup UNION {Variants[t].carries
                                                  : t \in of(c) \cap DOMAIN Variants})
                                \cap DOMAIN classes) : c \in DOMAIN classes}
      grow(S) == S \cup {p[2] : p \in {q \in nests : q[1] \in S}}
      within(root) == grow(grow(grow(grow(grow(grow({root}))))))
  IN [n \in DOMAIN WireExchanges |->
        [sends |-> within(WireExchanges[n].sends), answers |-> within(WireExchanges[n].answers),
         error |-> within("ErrorResponse")]]

(* All ordinary, all empty, and either with one field changed.             *)
Bare(class) == [f \in DOMAIN class |-> IF class[f].optional THEN "none" ELSE "dflt"]

MCInputs ==
  [c \in DOMAIN MCClasses |->
     LET class == MCClasses[c]
         bases == {[f \in DOMAIN class |-> "val"], Bare(class)} IN
     bases \cup UNION {UNION {{[b EXCEPT ![f] = v] : v \in Domain(class[f])}
                              : f \in DOMAIN class} : b \in bases}]
=============================================================================
