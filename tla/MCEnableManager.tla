-------------------------- MODULE MCEnableManager --------------------------
(***************************************************************************)
(* Small instances of EnableManager: two axes in two batches, the second a *)
(* Ti5 axis that rests in Ready To Switch On, or the Ti5 axis alone.  A    *)
(* scenario says how often each event of the environment may happen.       *)
(***************************************************************************)
EXTENDS EnableManager

MCBatches == <<{1}, {2}>>
MCSingleBatch == <<{2}>>

\* Every event of the scenario may happen once, no other does.
Once(events) == [e \in Event |-> IF e \in events THEN 1 ELSE 0]

\* A drive upset beside an enable and a disable.
MCRaces == {Once({"enable", "disable", "upset"})}
\* No upset: enable against disable only.
MCCalls == {Once({"enable", "disable"})}
\* All three services, the drives well behaved.
MCServices == {Once({"enable", "disable", "reset"})}
\* The switch service may be absent.
MCAbsent == {Once({"enable", "disable", "upset", "switchAbsent"})}

\* A controller switch that fails, is late or finds no service; a fault reset with a
\* stall of the caller and a restart of the controller.
MCMishaps ==
  {Once({"enable", "disable", "upset", "switchFail", "switchTimeout", "switchAbsent"}),
   Once({"disable", "reset", "upset", "serviceTimeout", "deactivate"})}

=============================================================================
