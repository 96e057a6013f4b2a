--------------------------- MODULE ServiceManager ---------------------------
(***************************************************************************)
(* The service manager process and the processes that register services    *)
(* with it.                                                                *)
(*                                                                         *)
(* A binder stands for one registered service object and dies with its     *)
(* process.  A transaction is one step.  What binder does is taken from    *)
(* how the code uses it: linkToDeath keeps a weak pointer to the recipient,*)
(* and each linked recipient that is still there hears of the death once.  *)
(* The manager ignores what linkToDeath returns; a registration is taken   *)
(* to arrive while its binder lives, when linkToDeath succeeds.            *)
(***************************************************************************)
EXTENDS Naturals

CONSTANTS
  Name, Binder,
  NoBinder,   \* no service
  MaxLinks    \* the registrations of one binder under one name we follow

ASSUME ServiceAssumption == NoBinder \notin Binder /\ MaxLinks \in Nat

VARIABLES
  mServices,      \* the manager's table: Name -> Binder or NoBinder
  links,          \* the ServiceDeathRecipients linked to each binder for each name
  mSdrList,       \* how many of them mSdrList keeps alive
  alive,          \* the binders whose process runs
  owner           \* history: who registered last, and nobody removed it since

managerVars == <<mServices, links, mSdrList>>
vars == <<managerVars, alive, owner>>

Service == Binder \cup {NoBinder}

OneMore(f, b, n) == [f EXCEPT ![b][n] = @ + 1]

\* Mutants: the recipient of a name that is taken is not linked again; or it is
\* not kept.
AddServiceLinksOnce(b, n) ==
  /\ b \in alive /\ links[b][n] < MaxLinks /\ mSdrList[b][n] < MaxLinks
  /\ mServices' = [mServices EXCEPT ![n] = b]
  /\ links' = IF mServices[n] = NoBinder THEN OneMore(links, b, n) ELSE links
  /\ mSdrList' = OneMore(mSdrList, b, n)
  /\ owner' = [owner EXCEPT ![n] = b]
  /\ UNCHANGED alive

AddServiceUnkept(b, n) ==
  /\ b \in alive /\ links[b][n] < MaxLinks
  /\ mServices' = [mServices EXCEPT ![n] = b]
  /\ links' = OneMore(links, b, n)
  /\ owner' = [owner EXCEPT ![n] = b]
  /\ UNCHANGED <<mSdrList, alive>>

\* ADD_SERVICE: the table entry is replaced, whoever had it, and a recipient for
\* the name is linked to the new binder.
AddService(b, n) ==
  /\ b \in alive /\ links[b][n] < MaxLinks /\ mSdrList[b][n] < MaxLinks
  /\ mServices' = [mServices EXCEPT ![n] = b]
  /\ links' = OneMore(links, b, n)
  /\ mSdrList' = OneMore(mSdrList, b, n)
  /\ owner' = [owner EXCEPT ![n] = b]
  /\ UNCHANGED alive

\* REMOVE_SERVICE leaves the recipient linked.
RemoveService(n) ==
  /\ mServices[n] # NoBinder
  /\ mServices' = [mServices EXCEPT ![n] = NoBinder]
  /\ owner' = [owner EXCEPT ![n] = NoBinder]
  /\ UNCHANGED <<links, mSdrList, alive>>

ProcessDies(b) ==
  /\ b \in alive
  /\ alive' = alive \ {b}
  /\ UNCHANGED <<managerVars, owner>>

\* The recipient of a dead binder erases its name from the table, whoever has
\* it now, and leaves mSdrList only if there was something to erase.
BinderDied(b, n) ==
  /\ b \notin alive /\ links[b][n] > 0 /\ mSdrList[b][n] > 0
  /\ links' = [links EXCEPT ![b][n] = @ - 1]
  /\ mServices' = [mServices EXCEPT ![n] = NoBinder]
  /\ mSdrList' = IF mServices[n] # NoBinder THEN [mSdrList EXCEPT ![b][n] = @ - 1] ELSE mSdrList
  /\ UNCHANGED <<alive, owner>>

Init ==
  /\ mServices = [n \in Name |-> NoBinder]
  /\ links = [b \in Binder |-> [n \in Name |-> 0]]
  /\ mSdrList = [b \in Binder |-> [n \in Name |-> 0]]
  /\ alive = Binder
  /\ owner = [n \in Name |-> NoBinder]

Next ==
  \/ \E b \in Binder : ProcessDies(b)
  \/ \E b \in Binder, n \in Name : AddService(b, n) \/ BinderDied(b, n)
  \/ \E n \in Name : RemoveService(n)

Spec == Init /\ [][Next]_vars

\* binder delivers every death notice.
FairSpec == Spec /\ \A b \in Binder, n \in Name : WF_vars(BinderDied(b, n))

-----------------------------------------------------------------------------
\* Type correctness of the table and the recipients.
TypeOK ==
  /\ mServices \in [Name -> Service]
  /\ links \in [Binder -> [Name -> 0..MaxLinks]]
  /\ mSdrList \in [Binder -> [Name -> 0..MaxLinks]]
  /\ alive \subseteq Binder
  /\ owner \in [Name -> Service]

\* Every linked recipient is one mSdrList still keeps alive: binder itself holds
\* it weakly, so a recipient that mSdrList dropped would never hear of the death.
RecipientsKept == \A b \in Binder, n \in Name : links[b][n] <= mSdrList[b][n]

\* Every service in the table has a recipient linked to it, through replacements,
\* removals and deaths of earlier registrants.
EntryWatched == \A n \in Name : mServices[n] # NoBinder => links[mServices[n]][n] > 0

\* A service whose process died leaves the table.
DeadServiceLeaves ==
  \A n \in Name, b \in Binder : (mServices[n] = b /\ b \notin alive) ~> (mServices[n] # b)

\* "a list of all currently running services": a service that runs and was neither
\* removed nor replaced is in the table LIST_SERVICES goes through.
RunningServicesListed ==
  \A n \in Name : owner[n] \in alive => mServices[n] = owner[n]
=============================================================================
