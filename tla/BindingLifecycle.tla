-------------------------- MODULE BindingLifecycle --------------------------
(***************************************************************************)
(* What the EndpointGroupBinding controller promises about a binding,      *)
(* without workers, caches, versions or failures: it names one endpoint    *)
(* group for life; its status names endpoints only while the finalizer     *)
(* holds it; once its deletion is asked for, the status names nothing new, *)
(* and it goes only when the status is empty or the group is gone.         *)
(***************************************************************************)
CONSTANTS Bindings, Groups, Endpoints, Absent

VARIABLES binding,   \* each binding, Absent or its phase, group and status
          alive      \* the endpoint groups that exist

vars == <<binding, alive>>

Phases == {"fresh", "held", "ending"}

Init ==
  /\ binding = [k \in Bindings |-> Absent]
  /\ alive = Groups

Become(k, phase, g, ids) ==
  /\ binding' = [binding EXCEPT ![k] = [phase |-> phase, group |-> g, recorded |-> ids]]
  /\ UNCHANGED alive

Vanish(k) == binding' = [binding EXCEPT ![k] = Absent] /\ UNCHANGED alive

In(k, phase) == binding[k] # Absent /\ binding[k].phase = phase

Create(k) == binding[k] = Absent /\ \E g \in Groups : Become(k, "fresh", g, {})

\* Nothing was promised yet.
Drop(k) == In(k, "fresh") /\ Vanish(k)

Hold(k) == In(k, "fresh") /\ Become(k, "held", binding[k].group, {})

Record(k) ==
  In(k, "held") /\ \E ids \in SUBSET Endpoints : Become(k, "held", binding[k].group, ids)

End(k) ==
  In(k, "held") /\ Become(k, "ending", binding[k].group, binding[k].recorded)

Empty(k) == In(k, "ending") /\ Become(k, "ending", binding[k].group, {})

Release(k) ==
  /\ In(k, "ending")
  /\ binding[k].recorded = {} \/ binding[k].group \notin alive
  /\ Vanish(k)

GroupGoes(g) == alive' = alive \ {g} /\ UNCHANGED binding

Next ==
  \/ \E k \in Bindings : Create(k) \/ Drop(k) \/ Hold(k) \/ Record(k)
                           \/ End(k) \/ Empty(k) \/ Release(k)
  \/ \E g \in Groups : GroupGoes(g)

Spec == Init /\ [][Next]_vars
=============================================================================
