----------------------------- MODULE ImportProofs -----------------------------
(***************************************************************************)
(* What reading lists leaves in the registry, for any lists and any number *)
(* of names, ids, removals and purges, and what the site then serves of    *)
(* it, the lists that are imported again among it.                         *)
(***************************************************************************)
EXTENDS Site, TLAPS

IsEndpoint(ep) ==
    ep = [host |-> ep.host, scheme |-> ep.scheme, port |-> ep.port, path |-> ep.path]

IsRow(e) ==
    e = [tracker |-> e.tracker, scheme |-> e.scheme, port |-> e.port, path |-> e.path]

TypeInv ==
    /\ DOMAIN trackers \subseteq Nat \ {0}
    /\ \A i \in DOMAIN trackers :
         trackers[i] = [name |-> trackers[i].name, enabled |-> trackers[i].enabled]
    /\ trackers = [i \in DOMAIN trackers |-> trackers[i]]
    /\ \A e \in endpoints : IsRow(e)
    /\ \A ep \in listed : IsEndpoint(ep)
    /\ purged \in BOOLEAN /\ removed \in BOOLEAN
    /\ \/ job = Idle
       \/ /\ job = [at |-> "reading", left |-> job.left, eps |-> job.eps,
                    ids |-> job.ids, only |-> job.only]
          /\ job.left \subseteq job.eps /\ job.eps \subseteq listed
          /\ job.only \in BOOLEAN

\* The ids an import has read are still those of its names, unless a name was
\* purged while one was under way; and if nothing was taken away since it began,
\* a whole import has enabled the names it met.
IdsInv ==
    job.at = "reading" =>
        /\ ~purged \/ ~removed =>
             \A name \in DOMAIN job.ids :
                job.ids[name] # Nobody => job.ids[name] \in Ids(name)
        /\ ~removed /\ ~job.only =>
             \A name \in DOMAIN job.ids :
                job.ids[name] \in Ids(name) /\ trackers[job.ids[name]].enabled
        /\ \A ep \in job.eps \ job.left : ep.host \in DOMAIN job.ids

ImportInv ==
    TypeInv /\ IdsInv /\ RegistryIsSound /\ EndpointsWereListed /\ ImportIsComplete

-----------------------------------------------------------------------------

\* What a written endpoint is read back as.
LEMMA WrittenIsUsable ==
    ASSUME NEW ep, ep.scheme # ""
    PROVE  /\ Usable(Written(ep))
           /\ ParseEndpoint(Written(ep)) =
                [host   |-> ep.host, scheme |-> ep.scheme,
                 port   |-> IF ep.port = 0 THEN defaultPorts(ep.scheme) ELSE ep.port,
                 path   |-> IF ep.path = "" THEN announcePath ELSE ep.path]
  BY DEF Written, Usable, ParseEndpoint

\* An endpoint written out, as in a client list, is read back as it was.
THEOREM WrittenIsReadBack ==
    ASSUME NEW line, Usable(line), ParseEndpoint(line).scheme # ""
    PROVE  /\ Usable(Written(ParseEndpoint(line)))
           /\ ParseEndpoint(Written(ParseEndpoint(line))) = ParseEndpoint(line)
  <1>1. PICK ep : ep = ParseEndpoint(line)
    OBVIOUS
  <1>2. /\ ep.scheme = line.scheme
        /\ ep.port = IF line.port = 0 THEN defaultPorts(line.scheme) ELSE line.port
        /\ ep.path = IF line.path = "" THEN announcePath ELSE line.path
        /\ ep = [host |-> ep.host, scheme |-> ep.scheme, port |-> ep.port, path |-> ep.path]
    BY <1>1 DEF ParseEndpoint
  <1>3. ep.path # "" /\ (ep.port = 0 => defaultPorts(ep.scheme) = 0)
    BY <1>2 DEF announcePath
  <1> QED BY <1>1, <1>2, <1>3, WrittenIsUsable

\* What is read of a list are endpoints.
LEMMA ParsedAreEndpoints ==
    ASSUME NEW lines PROVE \A ep \in ParseEndpoints(lines) : IsEndpoint(ep)
  <1>1. SUFFICES ASSUME NEW line PROVE IsEndpoint(ParseEndpoint(line))
    BY DEF ParseEndpoints
  <1> QED BY DEF ParseEndpoint, IsEndpoint

\* The invariant holds of an empty registry.
LEMMA InitImport == Init => ImportInv
  <1> SUFFICES ASSUME Init PROVE ImportInv
    OBVIOUS
  <1> USE DEF Init
  <1>1. DOMAIN trackers = {} /\ job.at # "reading"
    BY DEF Nothing, Idle
  <1>2. trackers = [i \in DOMAIN trackers |-> trackers[i]]
    BY DEF Nothing
  <1>3. TypeInv
    BY <1>1, <1>2 DEF TypeInv
  <1> QED
    BY <1>1, <1>3 DEF ImportInv, IdsInv, RegistryIsSound, EndpointsWereListed,
                      ImportIsComplete

\* Starting to read a list keeps it.
LEMMA StartImport ==
    ASSUME ImportInv, NEW lines, NEW only \in BOOLEAN, Start(lines, only)
    PROVE  ImportInv'
  <1> USE DEF ImportInv, Start
  <1>1. TypeInv'
    BY ParsedAreEndpoints DEF TypeInv, IsRow, IsEndpoint
  <1>2. IdsInv'
    BY DEF IdsInv, Nothing
  <1>3. RegistryIsSound'
    BY DEF RegistryIsSound
  <1>4. EndpointsWereListed'
    BY DEF EndpointsWereListed, EndpointOf
  <1>5. ImportIsComplete'
    BY DEF ImportIsComplete
  <1> QED BY <1>1, <1>2, <1>3, <1>4, <1>5

\* The fields of a job that is reading.
LEMMA ReadingJob ==
    ASSUME ImportInv, job.at = "reading"
    PROVE  /\ job = [at |-> "reading", left |-> job.left, eps |-> job.eps,
                     ids |-> job.ids, only |-> job.only]
           /\ job.left \subseteq job.eps /\ job.eps \subseteq listed
           /\ job.only \in BOOLEAN
  <1>1. job # Idle
    BY DEF Idle
  <1> QED BY <1>1 DEF ImportInv, TypeInv

\* Meeting a hostname keeps it, whether its row is new or not.
LEMMA AddTrackerImport ==
    ASSUME ImportInv, NEW name, AddTracker(name)
    PROVE  ImportInv'
  <1>1. PICK i \in IF Known(name) THEN Ids(name) ELSE NextIds :
          /\ trackers' = Put(trackers, i, [name |-> name, enabled |-> TRUE])
          /\ job' = [job EXCEPT !.ids = Put(@, name, i)]
    BY DEF AddTracker
  <1>2. i \in Nat \ {0}
    BY DEF Ids, NextIds, ImportInv, TypeInv
  <1>3. /\ job.at = "reading" /\ ~job.only /\ job'.at = "reading" /\ ~job'.only
        /\ job'.left = job.left /\ job'.eps = job.eps /\ job'.ids = Put(job.ids, name, i)
        /\ name \notin DOMAIN job.ids
        /\ UNCHANGED <<endpoints, listed, purged, removed>>
    BY <1>1 DEF AddTracker, ImportInv, TypeInv, Idle
  <1>4. /\ DOMAIN trackers' = DOMAIN trackers \cup {i}
        /\ trackers'[i] = [name |-> name, enabled |-> TRUE]
        /\ \A j \in DOMAIN trackers \ {i} : trackers'[j] = trackers[j]
        /\ DOMAIN job'.ids = DOMAIN job.ids \cup {name}
        /\ job'.ids[name] = i
        /\ \A n \in DOMAIN job.ids : job'.ids[n] = job.ids[n]
    BY <1>1, <1>3 DEF Put
  \* The id found is the name's own, and the next one is nobody's.
  <1>5. /\ i \in DOMAIN trackers => trackers[i].name = name
        /\ i \notin DOMAIN trackers => Ids(name) = {}
    <2>1. CASE Known(name)
      BY <1>1, <2>1 DEF Ids
    <2>2. CASE ~Known(name)
      <3>1. \A j \in DOMAIN trackers : j < i
        BY <1>1, <2>2 DEF NextIds
      <3>2. i \notin DOMAIN trackers
        BY <1>2, <3>1
      <3> QED BY <2>2, <3>2 DEF Known
    <2> QED BY <2>1, <2>2
  <1>6. \A j \in DOMAIN trackers : trackers'[j].name = trackers[j].name
    BY <1>4, <1>5
  <1>7. \A n : Ids(n) \subseteq Ids(n)'
    BY <1>4, <1>6 DEF Ids
  <1>8. i \in Ids(name)' /\ trackers'[i].enabled
    BY <1>4 DEF Ids
  <1>9. \A e \in endpoints : e.tracker \in DOMAIN trackers => EndpointOf(e)' = EndpointOf(e)
    BY <1>6 DEF EndpointOf
  <1>10. TypeInv'
    <2>1. \A j \in DOMAIN trackers' :
            trackers'[j] = [name |-> trackers'[j].name, enabled |-> trackers'[j].enabled]
      BY <1>4 DEF ImportInv, TypeInv
    <2>2. trackers' = [j \in DOMAIN trackers' |-> trackers'[j]]
      BY <1>1 DEF Put
    <2>3. job' = [at |-> "reading", left |-> job'.left, eps |-> job'.eps,
                  ids |-> job'.ids, only |-> job'.only]
      BY <1>1, <1>3 DEF ImportInv, TypeInv, Idle
    <2>4. /\ job'.left \subseteq job'.eps /\ job'.eps \subseteq listed'
          /\ job'.only \in BOOLEAN
      <3>1. job'.only = job.only
        BY <1>1, ReadingJob, <1>3
      <3> QED BY <1>3, <3>1, ReadingJob
    <2>5. DOMAIN trackers' \subseteq Nat \ {0}
      BY <1>2, <1>4 DEF ImportInv, TypeInv
    <2>6. /\ \A e \in endpoints' : IsRow(e)
          /\ \A ep \in listed' : IsEndpoint(ep)
          /\ purged' \in BOOLEAN /\ removed' \in BOOLEAN
      BY <1>3 DEF ImportInv, TypeInv
    <2> QED BY <2>1, <2>2, <2>3, <2>4, <2>5, <2>6 DEF TypeInv
  <1>11. IdsInv'
    <2>1. ~purged \/ ~removed =>
            \A n \in DOMAIN job'.ids : job'.ids[n] # Nobody => job'.ids[n] \in Ids(n)'
      BY <1>3, <1>4, <1>7, <1>8 DEF ImportInv, IdsInv
    <2>2. ~removed => \A n \in DOMAIN job'.ids :
            job'.ids[n] \in Ids(n)' /\ trackers'[job'.ids[n]].enabled
      <3> SUFFICES ASSUME ~removed, NEW n \in DOMAIN job'.ids
                   PROVE  job'.ids[n] \in Ids(n)' /\ trackers'[job'.ids[n]].enabled
        OBVIOUS
      <3>1. CASE n = name
        BY <1>4, <1>8, <3>1
      <3>2. CASE n # name
        <4>1. job.ids[n] \in Ids(n) /\ trackers[job.ids[n]].enabled
          BY <1>3, <1>4, <3>2 DEF ImportInv, IdsInv
        <4> QED BY <1>4, <1>7, <3>2, <4>1 DEF Ids
      <3> QED BY <3>1, <3>2
    <2>3. \A ep \in job'.eps \ job'.left : ep.host \in DOMAIN job'.ids
      BY <1>3, <1>4 DEF ImportInv, IdsInv
    <2> QED BY <1>3, <2>1, <2>2, <2>3 DEF IdsInv
  <1>12. RegistryIsSound'
    <2>1. \A j \in DOMAIN trackers \ {i} : trackers[j].name # name
      <3>1. CASE i \in DOMAIN trackers
        BY <1>5, <3>1 DEF ImportInv, RegistryIsSound
      <3>2. CASE i \notin DOMAIN trackers
        BY <1>5, <3>2 DEF Ids
      <3> QED BY <3>1, <3>2
    <2>2. \A j, k \in DOMAIN trackers' : trackers'[j].name = trackers'[k].name => j = k
      BY <1>4, <2>1 DEF ImportInv, RegistryIsSound
    <2> QED BY <1>3, <1>4, <2>2 DEF ImportInv, RegistryIsSound
  <1>13. EndpointsWereListed'
    BY <1>3, <1>9 DEF ImportInv, RegistryIsSound, EndpointsWereListed
  <1>14. ImportIsComplete'
    <2> SUFFICES ASSUME ~removed, NEW ep \in job.eps \ job.left
                 PROVE  /\ \E j \in Ids(ep.host)' : trackers'[j].enabled
                        /\ job'.ids[ep.host] \in Ids(ep.host)' /\ Probeable(ep) =>
                             \E e \in endpoints : EndpointOf(e)' = ep
      BY <1>3 DEF ImportIsComplete
    <2>1. ep.host \in DOMAIN job.ids
      BY <1>3 DEF ImportInv, IdsInv
    <2>2. job.ids[ep.host] \in Ids(ep.host) /\ job'.ids[ep.host] = job.ids[ep.host]
      BY <1>3, <1>4, <2>1 DEF ImportInv, IdsInv
    <2>3. Probeable(ep) => \E e \in endpoints : EndpointOf(e) = ep
      BY <1>3, <2>2 DEF ImportInv, ImportIsComplete
    <2>4. \E j \in Ids(ep.host)' : trackers'[j].enabled
      BY <1>3, <1>11, <2>1, <1>4 DEF IdsInv
    <2> QED BY <1>9, <2>3, <2>4 DEF ImportInv, RegistryIsSound
  <1> QED BY <1>10, <1>11, <1>12, <1>13, <1>14 DEF ImportInv

\* Looking a hostname up keeps it.
LEMMA FindImport ==
    ASSUME ImportInv, NEW name, Find(name)
    PROVE  ImportInv'
  <1>1. PICK i \in IF Known(name) THEN Ids(name) ELSE {Nobody} :
          job' = [job EXCEPT !.ids = Put(@, name, i)]
    BY DEF Find
  <1>2. /\ job.at = "reading" /\ job.only /\ job'.at = "reading" /\ job'.only
        /\ job'.left = job.left /\ job'.eps = job.eps /\ job'.ids = Put(job.ids, name, i)
        /\ name \notin DOMAIN job.ids
        /\ UNCHANGED <<trackers, endpoints, listed, purged, removed>>
    BY <1>1 DEF Find, ImportInv, TypeInv, Idle
  <1>3. /\ DOMAIN job'.ids = DOMAIN job.ids \cup {name}
        /\ job'.ids[name] = i
        /\ \A n \in DOMAIN job.ids : job'.ids[n] = job.ids[n]
    BY <1>2 DEF Put
  <1>4. i # Nobody => i \in Ids(name)
    BY <1>1
  <1>5. TypeInv'
    <2>1. job' = [at |-> "reading", left |-> job'.left, eps |-> job'.eps,
                  ids |-> job'.ids, only |-> job'.only]
      BY <1>1, <1>2 DEF ImportInv, TypeInv, Idle
    <2> QED BY <1>2, <2>1 DEF ImportInv, TypeInv, Idle
  <1>6. IdsInv'
    BY <1>2, <1>3, <1>4 DEF ImportInv, IdsInv, Ids
  <1>7. RegistryIsSound' /\ EndpointsWereListed'
    BY <1>2 DEF ImportInv, RegistryIsSound, EndpointsWereListed, EndpointOf
  <1>8. ImportIsComplete'
    <2> SUFFICES ASSUME ~removed, NEW ep \in job.eps \ job.left,
                        job'.ids[ep.host] \in Ids(ep.host), Probeable(ep)
                 PROVE  \E e \in endpoints : EndpointOf(e) = ep
      BY <1>2 DEF ImportIsComplete, Ids, EndpointOf
    <2>1. job'.ids[ep.host] = job.ids[ep.host]
      BY <1>2, <1>3 DEF ImportInv, IdsInv
    <2> QED BY <1>2, <2>1 DEF ImportInv, ImportIsComplete
  <1> QED BY <1>5, <1>6, <1>7, <1>8 DEF ImportInv

\* An endpoint done with, whether it was recorded or passed over.
LEMMA DoneWith ==
    ASSUME ImportInv, NEW ep \in job.left, job.at = "reading", ep.host \in DOMAIN job.ids,
           job' = [job EXCEPT !.left = @ \ {ep}]
    PROVE  /\ job'.at = "reading" /\ job'.only = job.only /\ job'.eps = job.eps
           /\ job'.ids = job.ids /\ job'.left = job.left \ {ep}
           /\ job' = [at |-> "reading", left |-> job'.left, eps |-> job'.eps,
                      ids |-> job'.ids, only |-> job'.only]
  <1>1. job = [at |-> "reading", left |-> job.left, eps |-> job.eps,
               ids |-> job.ids, only |-> job.only]
    BY ReadingJob
  <1>2. job' = [at |-> "reading", left |-> job.left \ {ep}, eps |-> job.eps,
                ids |-> job.ids, only |-> job.only]
    BY <1>1
  <1> QED BY <1>2

\* Attaching an endpoint keeps it.
LEMMA AttachImport ==
    ASSUME ImportInv, NEW ep \in job.left, Attach(ep)
    PROVE  ImportInv'
  <1> DEFINE i == job.ids[ep.host]
             row == [tracker |-> i, scheme |-> ep.scheme, port |-> ep.port, path |-> ep.path]
  <1>1. /\ job.at = "reading" /\ ep.host \in DOMAIN job.ids
        /\ UNCHANGED <<trackers, listed, purged, removed>>
        /\ ep \in job.eps /\ ep \in listed /\ IsEndpoint(ep)
    BY DEF Attach, ImportInv, TypeInv, Idle
  <1>2. CASE (i = Nobody \/ ~Probeable(ep)) /\ job' = [job EXCEPT !.left = @ \ {ep}]
             /\ UNCHANGED endpoints
    <2>1. /\ job'.at = "reading" /\ job'.only = job.only /\ job'.eps = job.eps
          /\ job'.ids = job.ids /\ job'.left = job.left \ {ep}
          /\ job' = [at |-> "reading", left |-> job'.left, eps |-> job'.eps,
                     ids |-> job'.ids, only |-> job'.only]
      BY <1>1, <1>2, DoneWith
    <2>2. TypeInv'
      BY <1>1, <1>2, <2>1 DEF ImportInv, TypeInv, Idle
    <2>3. IdsInv'
      BY <1>1, <2>1 DEF ImportInv, IdsInv, Ids
    <2>4. RegistryIsSound' /\ EndpointsWereListed'
      BY <1>1, <1>2 DEF ImportInv, RegistryIsSound, EndpointsWereListed, EndpointOf
    <2>5. ImportIsComplete'
      <3> SUFFICES ASSUME ~removed, NEW x \in job.eps \ (job.left \ {ep})
                   PROVE  /\ ~job.only => \E j \in Ids(x.host) : trackers[j].enabled
                          /\ job.ids[x.host] \in Ids(x.host) /\ Probeable(x) =>
                               \E e \in endpoints : EndpointOf(e) = x
        BY <1>1, <1>2, <2>1 DEF ImportIsComplete, Ids, EndpointOf
      <3>1. CASE x # ep
        BY <1>1, <3>1 DEF ImportInv, ImportIsComplete
      <3>2. CASE x = ep
        <4>1. ~job.only => i \in Ids(ep.host) /\ trackers[i].enabled
          BY <1>1 DEF ImportInv, IdsInv
        <4>2. Nobody \notin Ids(ep.host)
          BY DEF Ids, Nobody, ImportInv, TypeInv
        <4> QED BY <1>2, <3>2, <4>1, <4>2
      <3> QED BY <3>1, <3>2
    <2> QED BY <2>2, <2>3, <2>4, <2>5 DEF ImportInv
  <1>3. CASE i # Nobody /\ Probeable(ep) /\ i \in DOMAIN trackers
             /\ endpoints' = endpoints \cup {row} /\ job' = [job EXCEPT !.left = @ \ {ep}]
    <2>1. /\ job'.at = "reading" /\ job'.only = job.only /\ job'.eps = job.eps
          /\ job'.ids = job.ids /\ job'.left = job.left \ {ep}
          /\ job' = [at |-> "reading", left |-> job'.left, eps |-> job'.eps,
                     ids |-> job'.ids, only |-> job'.only]
      BY <1>1, <1>3, DoneWith
    <2>2. /\ IsRow(row) /\ row.tracker = i /\ row.scheme = ep.scheme
          /\ row.port = ep.port /\ row.path = ep.path
      BY DEF IsRow
    <2> HIDE DEF row
    <2>3. i \in Ids(ep.host) => EndpointOf(row) = ep
      BY <1>1, <2>2 DEF Ids, EndpointOf, IsEndpoint
    <2>4. TypeInv'
      <3>1. \A e \in endpoints' : IsRow(e)
        BY <1>3, <2>2 DEF ImportInv, TypeInv
      <3> QED BY <1>1, <2>1, <3>1 DEF ImportInv, TypeInv, Idle
    <2>5. IdsInv'
      BY <1>1, <2>1 DEF ImportInv, IdsInv, Ids
    <2>6. RegistryIsSound'
      BY <1>1, <1>3, <2>2 DEF ImportInv, RegistryIsSound
    <2>7. EndpointsWereListed'
      <3>1. \A e \in endpoints' : e.scheme \in {"udp", "http", "https"} /\ e.port > 0
        BY <1>3, <2>2 DEF ImportInv, EndpointsWereListed, Probeable
      <3>2. ~purged => EndpointOf(row) \in listed
        BY <1>1, <1>3, <2>3 DEF ImportInv, IdsInv
      <3>3. ~purged => \A e \in endpoints' : EndpointOf(e) \in listed
        BY <1>3, <3>2 DEF ImportInv, EndpointsWereListed
      <3> QED BY <1>1, <3>1, <3>3 DEF EndpointsWereListed, EndpointOf
    <2>8. ImportIsComplete'
      <3> SUFFICES ASSUME ~removed, NEW x \in job.eps \ (job.left \ {ep})
                   PROVE  /\ ~job.only => \E j \in Ids(x.host) : trackers[j].enabled
                          /\ job.ids[x.host] \in Ids(x.host) /\ Probeable(x) =>
                               \E e \in endpoints' : EndpointOf(e) = x
        BY <1>1, <2>1 DEF ImportIsComplete, Ids, EndpointOf
      <3>1. CASE x # ep
        BY <1>1, <1>3, <3>1 DEF ImportInv, ImportIsComplete
      <3>2. CASE x = ep
        <4>1. ~job.only => i \in Ids(ep.host) /\ trackers[i].enabled
          BY <1>1 DEF ImportInv, IdsInv
        <4>2. i \in Ids(ep.host) => \E e \in endpoints' : EndpointOf(e) = ep
          BY <1>3, <2>3
        <4> QED BY <3>2, <4>1, <4>2
      <3> QED BY <3>1, <3>2
    <2> QED BY <2>4, <2>5, <2>6, <2>7, <2>8 DEF ImportInv
  <1>4. CASE job' = Idle /\ UNCHANGED endpoints
    BY <1>1, <1>4 DEF ImportInv, TypeInv, IdsInv, RegistryIsSound, EndpointsWereListed,
                      EndpointOf, ImportIsComplete, Idle
  <1> QED
    BY <1>2, <1>3, <1>4 DEF Attach

\* Removing a name keeps it.
LEMMA RemoveTrackerImport ==
    ASSUME ImportInv, NEW i \in DOMAIN trackers, RemoveTracker(i)
    PROVE  ImportInv'
  <1> USE DEF RemoveTracker
  <1>1. /\ DOMAIN trackers' = DOMAIN trackers
        /\ \A j \in DOMAIN trackers : trackers'[j].name = trackers[j].name
        /\ \A j \in DOMAIN trackers :
             trackers'[j] = [name |-> trackers'[j].name, enabled |-> trackers'[j].enabled]
        /\ trackers' = [j \in DOMAIN trackers' |-> trackers'[j]]
    <2>1. /\ DOMAIN trackers' = DOMAIN trackers
          /\ trackers' = [j \in DOMAIN trackers' |-> trackers'[j]]
      OBVIOUS
    <2>2. SUFFICES ASSUME NEW j \in DOMAIN trackers
                   PROVE  /\ trackers'[j].name = trackers[j].name
                          /\ trackers'[j] = [name |-> trackers'[j].name,
                                             enabled |-> trackers'[j].enabled]
      BY <2>1
    <2>3. trackers[j] = [name |-> trackers[j].name, enabled |-> trackers[j].enabled]
      BY DEF ImportInv, TypeInv
    <2>4. \E b : trackers'[j] = [name |-> trackers[j].name, enabled |-> b]
      <3>1. CASE j = i
        BY <2>3, <3>1
      <3>2. CASE j # i
        BY <2>3, <3>2
      <3> QED BY <3>1, <3>2
    <2> QED BY <2>4
  <1>2. TypeInv'
    BY <1>1 DEF ImportInv, TypeInv
  <1>3. IdsInv' /\ ImportIsComplete'
    BY <1>1 DEF ImportInv, IdsInv, Ids, ImportIsComplete
  <1>4. RegistryIsSound' /\ EndpointsWereListed'
    BY <1>1 DEF ImportInv, RegistryIsSound, EndpointsWereListed, EndpointOf
  <1> QED BY <1>2, <1>3, <1>4 DEF ImportInv

\* So does purging one.
LEMMA PurgeImport ==
    ASSUME ImportInv, NEW i \in DOMAIN trackers, Purge(i)
    PROVE  ImportInv'
  <1>1. /\ DOMAIN trackers' = DOMAIN trackers \ {i}
        /\ \A j \in DOMAIN trackers' : trackers'[j] = trackers[j]
        /\ trackers' = [j \in DOMAIN trackers' |-> trackers'[j]]
        /\ endpoints' = {e \in endpoints : e.tracker # i}
        /\ removed' /\ (purged' <=> purged \/ job.at = "reading")
        /\ UNCHANGED <<job, listed>>
    BY DEF Purge
  <1>2. TypeInv'
    BY <1>1 DEF ImportInv, TypeInv, Purge
  <1>3. IdsInv' /\ ImportIsComplete'
    BY <1>1 DEF ImportInv, IdsInv, ImportIsComplete
  <1>4. RegistryIsSound'
    BY <1>1 DEF ImportInv, RegistryIsSound
  <1>5. EndpointsWereListed'
    BY <1>1 DEF ImportInv, RegistryIsSound, EndpointsWereListed, EndpointOf
  <1> QED BY <1>2, <1>3, <1>4, <1>5 DEF ImportInv

\* Every step keeps it.
LEMMA ImportStep == ImportInv /\ [Next]_vars => ImportInv'
  <1> SUFFICES ASSUME ImportInv, [Next]_vars PROVE ImportInv'
    OBVIOUS
  <1>1. CASE \E lines \in Lists, only \in BOOLEAN : Start(lines, only)
    BY <1>1, StartImport
  <1>2. CASE Reading
    BY <1>2, AddTrackerImport, FindImport, AttachImport DEF Reading
  <1>3. CASE Finish \/ Stop
    BY <1>3 DEF Finish, Stop, ImportInv, TypeInv, IdsInv, RegistryIsSound,
                EndpointsWereListed, EndpointOf, ImportIsComplete, Idle
  <1>4. CASE \E i \in DOMAIN trackers : RemoveTracker(i) \/ Purge(i)
    BY <1>4, RemoveTrackerImport, PurgeImport
  <1>5. CASE UNCHANGED vars
    BY <1>5 DEF vars, ImportInv, TypeInv, IdsInv, Ids, RegistryIsSound,
                EndpointsWereListed, EndpointOf, ImportIsComplete
  <1> QED BY <1>1, <1>2, <1>3, <1>4, <1>5 DEF Next

\* Whatever lists are read, in whatever company: a name has one row and no
\* endpoint is an orphan; every endpoint recorded can be probed and was listed
\* for its very name, unless a name was purged under an import; and an import
\* nothing was taken away from leaves its whole list behind.
THEOREM ImportInvariant ==
    Spec => [](RegistryIsSound /\ EndpointsWereListed /\ ImportIsComplete)
  <1>1. Spec => []ImportInv
    BY InitImport, ImportStep, PTL DEF Spec
  <1> QED BY <1>1, PTL DEF ImportInv

-----------------------------------------------------------------------------
(* The registry as the site serves it.                                      *)

\* No endpoint is without a path: a list that leaves it out means /announce.
PathsAreStated ==
    /\ \A ep \in listed : ep.path # ""
    /\ \A e \in endpoints : e.path # ""

\* What is left of a list of the site's own is on record.
OwnIsOnRecord ==
    job.at = "reading" /\ before.own /\ ~removed =>
        /\ endpoints = before.eps
        /\ \A ep \in job.left : \E e \in endpoints : EndpointOf(e) = ep

NamesAreKnown == \A name \in sitemap : Known(name)

SiteInv == ImportInv /\ PathsAreStated /\ OwnIsOnRecord /\ NamesAreKnown

-----------------------------------------------------------------------------

\* Of a list of endpoints, none is read without a path.
LEMMA ParsedHavePaths ==
    ASSUME NEW lines PROVE \A ep \in ParseEndpoints(lines) : ep.path # ""
  <1>1. SUFFICES ASSUME NEW line PROVE ParseEndpoint(line).path # ""
    BY DEF ParseEndpoints
  <1>2. ParseEndpoint(line).path = IF line.path = "" THEN announcePath ELSE line.path
    BY DEF ParseEndpoint
  <1> QED BY <1>2 DEF announcePath

\* A row in a client list is read back as the endpoint it is.
LEMMA ListedIsReadBack ==
    ASSUME ImportInv, PathsAreStated, NEW e \in endpoints
    PROVE  Usable(ListedURL(e)) /\ ParseEndpoint(ListedURL(e)) = EndpointOf(e)
  <1>1. e.path # "" /\ e.port # 0
    <2>1. e.port > 0
      BY DEF ImportInv, EndpointsWereListed
    <2>2. e.port # 0
      BY <2>1
    <2>3. e.path # ""
      BY DEF PathsAreStated
    <2> QED BY <2>2, <2>3
  <1> QED BY <1>1 DEF ListedURL, Usable, ParseEndpoint, EndpointOf

\* Reading lists, removing and purging keep what is known of an import.
LEMMA ImportPart == ImportInv /\ [SNext]_svars => ImportInv'
  <1> SUFFICES ASSUME ImportInv, [SNext]_svars PROVE ImportInv'
    OBVIOUS
  <1>2. CASE \E rows \in SUBSET MayBeListed, only \in BOOLEAN : StartOwn(rows, only)
    BY <1>2, StartImport DEF StartOwn
  <1>3. CASE StartForeign
    BY <1>3, StartImport DEF StartForeign
  <1>4. CASE Importing
    BY <1>4, ImportStep DEF Importing, Next
  <1>5. CASE ByHand
    BY <1>5, ImportStep DEF ByHand, Next
  <1>6. CASE Sitemap \/ UNCHANGED svars
    BY <1>6, ImportStep DEF Sitemap, svars
  <1> QED BY <1>2, <1>3, <1>4, <1>5, <1>6 DEF SNext

\* Meeting a hostname takes no name and no row away.
LEMMA NamesStay ==
    ASSUME ImportInv, NEW name, AddTracker(name)
    PROVE  /\ DOMAIN trackers \subseteq DOMAIN trackers'
           /\ \A j \in DOMAIN trackers : trackers'[j].name = trackers[j].name
           /\ job'.left = job.left
  <1>1. PICK i \in IF Known(name) THEN Ids(name) ELSE NextIds :
          /\ trackers' = Put(trackers, i, [name |-> name, enabled |-> TRUE])
          /\ job' = [job EXCEPT !.ids = Put(@, name, i)]
    BY DEF AddTracker
  <1>2. job'.left = job.left
    BY <1>1, ReadingJob DEF AddTracker
  <1>3. i \in DOMAIN trackers => trackers[i].name = name
    <2>1. CASE Known(name)
      BY <1>1, <2>1 DEF Ids
    <2>2. CASE ~Known(name)
      <3>1. \A j \in DOMAIN trackers : j < i
        BY <1>1, <2>2 DEF NextIds
      <3>2. DOMAIN trackers \subseteq Nat
        BY DEF ImportInv, TypeInv
      <3>3. i \notin DOMAIN trackers
        BY <3>1, <3>2
      <3> QED BY <3>3
    <2> QED BY <2>1, <2>2
  <1> QED BY <1>1, <1>2, <1>3 DEF Put

\* The endpoint at hand is on record already when the list is the site's own.
LEMMA AttachIsNoNews ==
    ASSUME ImportInv, OwnIsOnRecord, NEW ep \in job.left, Attach(ep),
           before.own, ~removed
    PROVE  endpoints' = endpoints
  <1> DEFINE i == job.ids[ep.host]
             row == [tracker |-> i, scheme |-> ep.scheme, port |-> ep.port, path |-> ep.path]
  <1>1. CASE UNCHANGED endpoints
    BY <1>1
  <1>2. CASE i # Nobody /\ endpoints' = endpoints \cup {row}
    <2>1. i \in Ids(ep.host)
      BY <1>2 DEF Attach, ImportInv, IdsInv
    <2>2. PICK e \in endpoints : EndpointOf(e) = ep
      BY DEF Attach, OwnIsOnRecord
    <2>3. /\ trackers[e.tracker].name = ep.host /\ e.scheme = ep.scheme
          /\ e.port = ep.port /\ e.path = ep.path
      BY <2>2 DEF EndpointOf
    <2>4. e.tracker = i
      BY <2>1, <2>3 DEF ImportInv, RegistryIsSound, Ids
    <2>5. e = row
      BY <2>3, <2>4 DEF ImportInv, TypeInv, IsRow
    <2> QED BY <1>2, <2>5
  <1> QED BY <1>1, <1>2 DEF Attach

-----------------------------------------------------------------------------

\* Paths are stated in whatever is read and recorded.
LEMMA PathsStep == ImportInv /\ PathsAreStated /\ [SNext]_svars => PathsAreStated'
  <1> SUFFICES ASSUME ImportInv, PathsAreStated, [SNext]_svars PROVE PathsAreStated'
    OBVIOUS
  <1> USE DEF PathsAreStated
  <1>1. CASE \E lines : \E only \in BOOLEAN : Start(lines, only)
    BY <1>1, ParsedHavePaths DEF Start
  <1>2. CASE Importing
    <2>1. CASE \E name : AddTracker(name) \/ Find(name)
      BY <2>1 DEF AddTracker, Find
    <2>2. ASSUME NEW ep \in job.left, Attach(ep) PROVE PathsAreStated'
      <3>1. ep \in listed
        BY <2>2, ReadingJob DEF Attach
      <3>2. listed' = listed
        BY <2>2 DEF Attach
      <3>3. \A e \in endpoints' : e \in endpoints \/ e.path = ep.path
        <4> DEFINE row == [tracker |-> job.ids[ep.host], scheme |-> ep.scheme,
                           port |-> ep.port, path |-> ep.path]
        <4>1. endpoints' = endpoints \/ endpoints' = endpoints \cup {row}
          BY <2>2 DEF Attach
        <4>2. row.path = ep.path
          OBVIOUS
        <4> QED BY <4>1, <4>2
      <3> QED BY <3>1, <3>2, <3>3
    <2>3. CASE Finish \/ Stop
      BY <2>3 DEF Finish, Stop
    <2> QED BY <1>2, <2>1, <2>2, <2>3 DEF Importing, Reading
  <1>3. CASE ByHand
    BY <1>3 DEF ByHand, RemoveTracker, Purge
  <1>4. CASE Sitemap \/ UNCHANGED svars
    BY <1>4 DEF Sitemap, svars, vars
  <1> QED BY <1>1, <1>2, <1>3, <1>4 DEF SNext, StartForeign, StartOwn

\* What is left of the site's own list stays on record.
LEMMA OwnStep ==
    ImportInv /\ PathsAreStated /\ OwnIsOnRecord /\ [SNext]_svars => OwnIsOnRecord'
  <1> SUFFICES ASSUME ImportInv, PathsAreStated, OwnIsOnRecord, [SNext]_svars
               PROVE  OwnIsOnRecord'
    OBVIOUS
  <1>1. CASE StartForeign
    BY <1>1 DEF StartForeign, Foreign, OwnIsOnRecord
  <1>2. ASSUME NEW rows \in SUBSET MayBeListed, NEW only \in BOOLEAN, StartOwn(rows, only)
        PROVE  OwnIsOnRecord'
    <2>1. /\ job' = [at |-> "reading", left |-> ParseEndpoints(ClientList(rows)),
                     eps |-> ParseEndpoints(ClientList(rows)), ids |-> Nothing,
                     only |-> only]
          /\ UNCHANGED <<trackers, endpoints>> /\ before' = Own(endpoints)
      BY <1>2 DEF StartOwn, Start
    <2>2. \A ep \in ParseEndpoints(ClientList(rows)) : \E e \in endpoints : EndpointOf(e) = ep
      BY ListedIsReadBack DEF ParseEndpoints, ClientList, MayBeListed
    <2> QED BY <2>1, <2>2 DEF OwnIsOnRecord, Own, EndpointOf
  <1>3. CASE Importing
    <2> USE <1>3 DEF Importing
    <2>1. ASSUME NEW name, AddTracker(name) PROVE OwnIsOnRecord'
      <3>1. UNCHANGED <<endpoints, before, removed>> /\ job.at = "reading"
        BY <2>1 DEF AddTracker
      <3>2. \A e \in endpoints : EndpointOf(e)' = EndpointOf(e)
        BY <2>1, NamesStay DEF EndpointOf, ImportInv, RegistryIsSound
      <3> QED BY <2>1, <3>1, <3>2, NamesStay DEF OwnIsOnRecord
    <2>2. ASSUME NEW name, Find(name) PROVE OwnIsOnRecord'
      <3>1. UNCHANGED <<trackers, endpoints, before, removed>> /\ job.at = "reading"
        BY <2>2 DEF Find
      <3>2. job'.left = job.left
        BY <2>2, ReadingJob DEF Find
      <3> QED BY <3>1, <3>2 DEF OwnIsOnRecord, EndpointOf
    <2>3. ASSUME NEW ep \in job.left, Attach(ep) PROVE OwnIsOnRecord'
      <3> SUFFICES ASSUME job'.at = "reading", before.own, ~removed
                   PROVE  /\ endpoints' = before.eps
                          /\ \A x \in job'.left : \E e \in endpoints' : EndpointOf(e)' = x
        BY <2>3 DEF OwnIsOnRecord, Attach
      <3>1. endpoints' = endpoints /\ UNCHANGED trackers /\ job.at = "reading"
        BY <2>3, AttachIsNoNews DEF Attach
      <3>2. job' = [job EXCEPT !.left = @ \ {ep}] \/ job' = Idle
        BY <2>3 DEF Attach
      <3>3. job'.left = job.left \ {ep}
        BY <3>1, <3>2, ReadingJob DEF Idle
      <3> QED BY <3>1, <3>3 DEF OwnIsOnRecord, EndpointOf
    <2>4. CASE Finish \/ Stop
      BY <2>4 DEF Finish, Stop, Idle, OwnIsOnRecord
    <2> QED BY <2>1, <2>2, <2>3, <2>4 DEF Reading
  <1>4. CASE ByHand
    BY <1>4 DEF ByHand, RemoveTracker, Purge, OwnIsOnRecord
  <1>5. CASE Sitemap \/ UNCHANGED svars
    BY <1>5 DEF Sitemap, svars, vars, OwnIsOnRecord, EndpointOf
  <1> QED BY <1>1, <1>2, <1>3, <1>4, <1>5 DEF SNext

\* A name that was linked stays known unless it is purged.
LEMMA SitemapStep == ImportInv /\ NamesAreKnown /\ [SNext]_svars => NamesAreKnown'
  <1> SUFFICES ASSUME ImportInv, NamesAreKnown, [SNext]_svars PROVE NamesAreKnown'
    OBVIOUS
  <1> USE DEF NamesAreKnown, Known, Ids
  <1>1. CASE UNCHANGED <<trackers, sitemap>>
    BY <1>1
  <1>2. CASE Sitemap
    BY <1>2 DEF Sitemap, NamesOf, Enabled, vars
  <1>3. ASSUME NEW name, AddTracker(name), UNCHANGED sitemap PROVE NamesAreKnown'
    BY <1>3, NamesStay
  <1>4. ASSUME NEW i \in DOMAIN trackers, RemoveTracker(i), UNCHANGED sitemap
        PROVE  NamesAreKnown'
    <2>1. trackers' = [trackers EXCEPT ![i].enabled = FALSE]
      BY <1>4 DEF RemoveTracker
    <2>2. DOMAIN trackers' = DOMAIN trackers
      BY <2>1
    <2>3. \A j \in DOMAIN trackers : trackers'[j].name = trackers[j].name
      <3> SUFFICES ASSUME NEW j \in DOMAIN trackers
                   PROVE  trackers'[j].name = trackers[j].name
        OBVIOUS
      <3>1. trackers[j] = [name |-> trackers[j].name, enabled |-> trackers[j].enabled]
        BY DEF ImportInv, TypeInv
      <3>2. CASE j = i
        BY <2>1, <3>1, <3>2
      <3>3. CASE j # i
        BY <2>1, <3>3
      <3> QED BY <3>2, <3>3
    <2> QED BY <1>4, <2>2, <2>3
  <1>5. ASSUME NEW i \in DOMAIN trackers, Purge(i), sitemap' = sitemap \ {trackers[i].name}
        PROVE  NamesAreKnown'
    BY <1>5 DEF Purge
  <1>6. CASE StartForeign \/ \E rows \in SUBSET MayBeListed, only \in BOOLEAN : StartOwn(rows, only)
    BY <1>1, <1>6 DEF StartForeign, StartOwn, Start
  <1>7. CASE Importing
    <2>1. CASE \E name \in Hosts(job.left) : AddTracker(name)
      BY <1>3, <1>7, <2>1 DEF Importing
    <2>2. CASE \E name \in Hosts(job.left) : Find(name)
      BY <1>1, <1>7, <2>2 DEF Importing, Find
    <2>3. CASE \E ep \in job.left : Attach(ep)
      BY <1>1, <1>7, <2>3 DEF Importing, Attach
    <2>4. CASE Finish \/ Stop
      BY <1>1, <1>7, <2>4 DEF Importing, Finish, Stop
    <2> QED BY <1>7, <2>1, <2>2, <2>3, <2>4 DEF Importing, Reading
  <1>8. CASE ByHand
    BY <1>4, <1>5, <1>8 DEF ByHand
  <1>9. CASE UNCHANGED svars
    BY <1>1, <1>9 DEF svars, vars
  <1> QED BY <1>2, <1>6, <1>7, <1>8, <1>9 DEF SNext

\* Together they are inductive.
LEMMA SiteInvariant == SSpec => []SiteInv
  <1>1. SInit => SiteInv
    <2>1. SInit => ImportInv
      BY InitImport DEF SInit
    <2>2. SInit => PathsAreStated /\ OwnIsOnRecord /\ NamesAreKnown
      BY DEF SInit, Init, Idle, PathsAreStated, OwnIsOnRecord, NamesAreKnown
    <2> QED BY <2>1, <2>2 DEF SiteInv
  <1>2. SiteInv /\ [SNext]_svars => SiteInv'
    BY ImportPart, PathsStep, OwnStep, SitemapStep DEF SiteInv
  <1> QED BY <1>1, <1>2, PTL DEF SSpec

\* Whatever lists are imported, the site's own among them, and however imports
\* are interrupted or worked against: what is on record belongs to a row there
\* is and was listed for its name, and an import left alone is complete.
THEOREM RegistryIsWhatWasListed == SSpec => [](WhatIsRecordedWasListed /\ ImportIsComplete)
  <1>1. SiteInv => WhatIsRecordedWasListed /\ ImportIsComplete
    BY DEF SiteInv, ImportInv, WhatIsRecordedWasListed
  <1> QED BY <1>1, SiteInvariant, PTL

\* A link of the sitemap leads to a page until its name is purged.
THEOREM LinksAreFollowable == SSpec => []SitemapIsFollowable
  <1>1. SiteInv => SitemapIsFollowable
    BY DEF SiteInv, NamesAreKnown, Known, SitemapIsFollowable, StatusOfPage, lookupTracker
  <1> QED BY <1>1, SiteInvariant, PTL

\* Importing any part of what the site lists, in any order and however far it
\* gets, leaves the endpoints on record as they were, when no name is removed
\* meanwhile.
THEOREM OwnListsAddNothing == SSpec => []OwnListIsNoNews
  <1>1. SiteInv => OwnListIsNoNews
    BY DEF SiteInv, OwnIsOnRecord, OwnListIsNoNews
  <1> QED BY <1>1, SiteInvariant, PTL

=============================================================================
