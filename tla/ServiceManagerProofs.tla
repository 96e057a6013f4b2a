------------------------ MODULE ServiceManagerProofs ------------------------
EXTENDS ServiceManager, TLAPS

\* The table and the recipients keep their types.
THEOREM TypeCorrect == Spec => []TypeOK
<1> USE ServiceAssumption DEF TypeOK, Service
<1>1. Init => TypeOK
  BY DEF Init
<1>2. TypeOK /\ [Next]_vars => TypeOK'
  <2> SUFFICES ASSUME TypeOK, [Next]_vars PROVE TypeOK'
    OBVIOUS
  <2>1. ASSUME NEW b \in Binder, ProcessDies(b) PROVE TypeOK'
    BY <2>1 DEF ProcessDies, managerVars
  <2>2. ASSUME NEW b \in Binder, NEW n \in Name, AddService(b, n) PROVE TypeOK'
    BY <2>2 DEF AddService, OneMore
  <2>3. ASSUME NEW b \in Binder, NEW n \in Name, BinderDied(b, n) PROVE TypeOK'
    BY <2>3 DEF BinderDied
  <2>4. ASSUME NEW n \in Name, RemoveService(n) PROVE TypeOK'
    BY <2>4 DEF RemoveService
  <2>5. CASE UNCHANGED vars
    BY <2>5 DEF vars, managerVars
  <2> QED
    BY <2>1, <2>2, <2>3, <2>4, <2>5 DEF Next
<1>3. QED
  BY <1>1, <1>2, PTL DEF Spec

\* For every number of services and names: a recipient that is to hear of
\* a death is still kept by mSdrList, because each one leaves it at most when told.
THEOREM KeepsRecipients == Spec => []RecipientsKept
<1>1. Init => RecipientsKept
  <2>1. ASSUME Init, NEW b \in Binder, NEW n \in Name PROVE links[b][n] = 0 /\ mSdrList[b][n] = 0
    BY <2>1 DEF Init
  <2> QED
    BY <2>1 DEF RecipientsKept
<1>2. TypeOK /\ RecipientsKept /\ [Next]_vars => RecipientsKept'
  <2> SUFFICES ASSUME TypeOK, RecipientsKept, [Next]_vars,
                      NEW a \in Binder, NEW m \in Name
               PROVE  links'[a][m] <= mSdrList'[a][m]
    BY DEF RecipientsKept
  <2> USE ServiceAssumption DEF TypeOK
  <2>0. links[a][m] <= mSdrList[a][m] /\ links[a][m] \in Nat /\ mSdrList[a][m] \in Nat
    BY DEF RecipientsKept
  <2>1. ASSUME NEW b \in Binder, NEW n \in Name, AddService(b, n)
        PROVE  links'[a][m] <= mSdrList'[a][m]
    BY <2>0, <2>1 DEF AddService, OneMore
  <2>2. ASSUME NEW b \in Binder, NEW n \in Name, BinderDied(b, n)
        PROVE  links'[a][m] <= mSdrList'[a][m]
    BY <2>0, <2>2 DEF BinderDied
  <2>3. CASE UNCHANGED <<links, mSdrList>>
    BY <2>0, <2>3
  <2> QED
    BY <2>1, <2>2, <2>3 DEF Next, ProcessDies, RemoveService, vars,
       managerVars
<1>3. QED
  BY <1>1, <1>2, TypeCorrect, PTL DEF Spec

\* For every number of services and names: no sequence of registrations,
\* replacements, removals and deaths leaves a service in the table unwatched.
THEOREM WatchesEntries == Spec => []EntryWatched
<1>1. Init => EntryWatched
  BY DEF Init, EntryWatched
<1>2. TypeOK /\ EntryWatched /\ [Next]_vars => EntryWatched'
  <2> SUFFICES ASSUME TypeOK, EntryWatched, [Next]_vars,
                      NEW m \in Name, mServices'[m] # NoBinder
               PROVE  links'[mServices'[m]][m] > 0
    BY DEF EntryWatched
  <2> USE ServiceAssumption DEF TypeOK, Service
  <2>1. ASSUME NEW b \in Binder, NEW n \in Name, AddService(b, n)
        PROVE  links'[mServices'[m]][m] > 0
    <3>1. mServices'[m] \in Binder /\ links[mServices'[m]][m] \in Nat
      BY <2>1 DEF AddService
    <3>2. CASE m = n
      BY <2>1, <3>1, <3>2 DEF AddService, OneMore
    <3>3. CASE m # n
      BY <2>1, <3>1, <3>3 DEF AddService, OneMore, EntryWatched
    <3> QED
      BY <3>2, <3>3
  <2>2. ASSUME NEW b \in Binder, NEW n \in Name, BinderDied(b, n)
        PROVE  links'[mServices'[m]][m] > 0
    <3>1. m # n /\ mServices'[m] = mServices[m] /\ mServices[m] \in Binder
      BY <2>2 DEF BinderDied
    <3>2. links'[mServices[m]][m] = links[mServices[m]][m]
      BY <2>2, <3>1 DEF BinderDied
    <3> QED
      BY <3>1, <3>2 DEF EntryWatched
  <2>3. ASSUME NEW n \in Name, RemoveService(n) PROVE links'[mServices'[m]][m] > 0
    BY <2>3 DEF RemoveService, EntryWatched
  <2>4. CASE UNCHANGED <<mServices, links>>
    BY <2>4 DEF EntryWatched
  <2> QED
    BY <2>1, <2>2, <2>3, <2>4 DEF Next, ProcessDies, vars, managerVars
<1>3. QED
  BY <1>1, <1>2, TypeCorrect, PTL DEF Spec
=============================================================================
