---------------------------- MODULE MachineProofs ---------------------------
(***************************************************************************)
(* Proofs about Machine, for any number of runners, processes and commands *)
(* that overlap.                                                           *)
(*                                                                         *)
(* A promise is kept because a command first unsays what was promised of   *)
(* its own entry (UnsureOK), writes back of the others what it had read    *)
(* (SeenOK), and promises something new only if nobody was at the same     *)
(* file in the meantime (AloneOK), so that what it did is still there      *)
(* (LoadedOK, DoneOK).                                                     *)
(***************************************************************************)
EXTENDS Machine, TLAPS

Active(p) == pc[p] # "idle"
Creates(p) == kind[p] \in {"create", "upgrade"}
Removes(p) == kind[p] \in {"remove", "purge"}

\* What a process may be doing in which command.
StagesOK ==
    \A p \in Process : Active(p) =>
        /\ number[p] >= 1
        /\ Creates(p) \/ Removes(p) <=> entry[p] \in Runner
        /\ pc[p] = "look" => Removes(p) \/ kind[p] = "upgrade"
        /\ pc[p] \in {"check", "clear"} => kind[p] = "upgrade"
        /\ pc[p] = "install" => Creates(p)
        /\ pc[p] = "deregister" => Removes(p)
        /\ pc[p] = "purge" => kind[p] = "purge"

AloneOK ==
    \A p \in alone, q \in Process :
        p # q /\ Active(p) /\ Active(q) => FileOf(entry[p]) # FileOf(entry[q])

UnsureOK == \A p \in Process : Active(p) => meant[entry[p]] = Unknown

SeenOK ==
    \A p \in Process : pc[p] \in {"save", "write"} =>
        \A e \in FileOf(entry[p]) :
            e # entry[p] /\ meant[e] # Unknown => seen[p][e] = meant[e]

LoadedOK ==
    \A p \in alone :
        /\ pc[p] = "save" => seen[p][entry[p]] = book[entry[p]]
        /\ pc[p] = "purge" => book[entry[p]] = Absent

DoneOK ==
    \A p \in alone : pc[p] \in {"load", "save", "write", "purge"} =>
        /\ Removes(p) => entry[p] \notin registered
        /\ Creates(p) => entry[p] \in registered \cap unpacked \cap configured

\* PromiseKept, of the runners, whatever becomes of the file.
RunnersOK ==
    \A n \in Runner : meant[n] # Unknown =>
        /\ meant[n] # Absent <=> n \in registered
        /\ meant[n] # Absent => n \in unpacked \cap configured

FilesInv ==
    /\ StagesOK /\ AloneOK /\ UnsureOK /\ SeenOK /\ LoadedOK /\ DoneOK
    /\ RunnersOK /\ PromiseKept

Typed == CommandTypeOK /\ FileTypeOK /\ RunnerTypeOK

LEMMA FileFacts ==
    ASSUME NEW e \in Entry, NEW f \in Entry
    PROVE  /\ e \in FileOf(e)
           /\ FileOf(e) \subseteq Entry
           /\ f \in FileOf(e) <=> FileOf(f) = FileOf(e)
<1>1. \A x : ~ (x \in Runner /\ x \in Credential)
    BY MachineAssumption DEF Credential
<1>2. Runner # Credential
    BY <1>1 DEF Credential
<1> QED
    BY <1>1, <1>2 DEF FileOf, Entry

LEMMA Constants == Unknown = -1 /\ Absent = 0 /\ MaxCommands \in Nat
BY MachineAssumption DEF Unknown, Absent

\* What a process does to the runner of its own command, before it comes to the
\* file.
LEMMA WorkingKeepsFiles ==
    ASSUME Typed, FilesInv, NEW p \in Process, NEW k \in Stages,
           Active(p), pc[p] # "write",
           pc' = [pc EXCEPT ![p] = k], k \notin {"save", "write", "purge"},
           UNCHANGED <<kind, entry, number, alone, seen, book, meant>>,
           /\ k = "look" => Removes(p) \/ kind[p] = "upgrade"
           /\ k \in {"check", "clear"} => kind[p] = "upgrade"
           /\ k = "install" => Creates(p)
           /\ k = "deregister" => Removes(p),
           \A n \in Runner : n # entry[p] =>
               /\ n \in registered' <=> n \in registered
               /\ n \in unpacked' <=> n \in unpacked
               /\ n \in configured' <=> n \in configured,
           k = "load" =>
               /\ Removes(p) => entry[p] \notin registered'
               /\ Creates(p) => entry[p] \in registered' \cap unpacked' \cap configured'
    PROVE  FilesInv'
<1> USE DEF FilesInv
<1>1. /\ pc'[p] = k
      /\ \A q \in Process : q # p => pc'[q] = pc[q]
    BY DEF Typed, CommandTypeOK
<1>2. \A q \in Process : Active(q)' => Active(q)
    BY <1>1 DEF Active
<1>3. \A e \in Entry : Torn(e)' <=> Torn(e)
    BY <1>1 DEF Torn, At
<1>4. StagesOK'
    BY <1>1, <1>2 DEF StagesOK, Active, Creates, Removes
<1>5. AloneOK' /\ UnsureOK'
    BY <1>2 DEF AloneOK, UnsureOK, Typed, CommandTypeOK
<1>6. SeenOK'
    BY <1>1 DEF SeenOK
<1>7. LoadedOK'
    BY <1>1 DEF LoadedOK, Typed, CommandTypeOK
<1>8. \A q \in alone : q # p /\ Active(q) => entry[q] # entry[p]
    BY DEF AloneOK
<1>9. DoneOK'
    <2> SUFFICES ASSUME NEW q \in alone, pc'[q] \in {"load", "save", "write", "purge"}
                 PROVE  /\ Removes(q) => entry[q] \notin registered'
                        /\ Creates(q) => entry[q] \in registered' \cap unpacked' \cap configured'
        BY DEF DoneOK, Removes, Creates
    <2>1. CASE q = p
        BY <1>1, <2>1
    <2>2. CASE q # p
        <3>1. pc[q] = pc'[q] /\ q \in Process /\ Active(q)
            BY <1>1, <2>2 DEF Typed, CommandTypeOK, Active
        <3>2. entry[q] # entry[p]
            BY <1>8, <2>2, <3>1
        <3>3. Removes(q) \/ Creates(q) => entry[q] \in Runner
            BY <3>1 DEF StagesOK
        <3> QED
            BY <3>1, <3>2, <3>3 DEF DoneOK
    <2> QED
        BY <2>1, <2>2
<1>11. RunnersOK'
    BY DEF RunnersOK, UnsureOK
<1>10. PromiseKept'
    <2> SUFFICES ASSUME NEW e \in Entry, meant[e] # Unknown, ~ Torn(e)
                 PROVE  /\ book[e] = meant[e]
                        /\ e \in Runner => (meant[e] # Absent <=> e \in registered')
                        /\ e \in Runner /\ meant[e] # Absent => e \in unpacked' \cap configured'
        BY <1>3 DEF PromiseKept
    <2>1. e # entry[p]
        BY DEF UnsureOK
    <2> QED
        BY <2>1 DEF PromiseKept
<1> QED
    BY <1>4, <1>5, <1>6, <1>7, <1>9, <1>10, <1>11

\* A command begins.
LEMMA BeginKeepsFiles ==
    ASSUME Typed, FilesInv, NEW p \in Process, NEW k \in Kinds, NEW e \in Entry,
           NEW first \in {"load", "install", "look"}, Begin(p, k, e, first),
           k \in {"create", "remove", "purge", "upgrade"} <=> e \in Runner,
           first = "load" => e \notin Runner,
           first = "install" => k = "create",
           first = "look" => k \in {"remove", "purge", "upgrade"}
    PROVE  FilesInv'
<1> USE DEF FilesInv
<1>1. /\ pc[p] = "idle" /\ pc'[p] = first /\ kind'[p] = k /\ entry'[p] = e
      /\ number'[p] = turn + 1 /\ turn \in Nat /\ meant'[e] = Unknown
      /\ \A q \in Process : q # p =>
            pc'[q] = pc[q] /\ kind'[q] = kind[q] /\ entry'[q] = entry[q] /\ number'[q] = number[q]
      /\ \A f \in Entry : f # e => meant'[f] = meant[f]
      /\ UNCHANGED <<seen, book, registered, unpacked, configured>>
    BY MachineAssumption DEF Begin, At, Goto, Lost, Typed, CommandTypeOK, FileTypeOK, diskVars
<1>2. \A f \in Entry : Torn(f)' <=> Torn(f)
    BY <1>1 DEF Torn, At
<1>3. StagesOK'
    <2> SUFFICES ASSUME NEW q \in Process, pc'[q] # "idle"
                 PROVE  /\ number'[q] >= 1
                        /\ (Creates(q) \/ Removes(q))' <=> entry'[q] \in Runner
                        /\ pc'[q] = "look" => Removes(q)' \/ kind'[q] = "upgrade"
                        /\ pc'[q] \in {"check", "clear"} => kind'[q] = "upgrade"
                        /\ pc'[q] = "install" => Creates(q)'
                        /\ pc'[q] = "deregister" => Removes(q)'
                        /\ pc'[q] = "purge" => kind'[q] = "purge"
        BY DEF StagesOK, Active
    <2>1. CASE q = p
        BY <1>1, <2>1 DEF Creates, Removes
    <2>2. CASE q # p
        BY <1>1, <2>2 DEF StagesOK, Active, Creates, Removes
    <2> QED
        BY <2>1, <2>2
<1>4. /\ \A q \in alone' : q # p => q \in alone /\ q \notin Others(e)
      /\ p \in alone' => Others(e) = {}
    <2>1. CASE Others(e) = {}
        BY <2>1 DEF Begin
    <2>2. CASE Others(e) # {}
        BY <2>2 DEF Begin
    <2> QED
        BY <2>1, <2>2
<1>5. AloneOK'
    <2> SUFFICES ASSUME NEW q \in alone', NEW r \in Process, q # r, pc'[q] # "idle", pc'[r] # "idle"
                 PROVE  FileOf(entry'[q]) # FileOf(entry'[r])
        BY DEF AloneOK, Active, FileOf
    <2>0. q \in Process
        BY <1>4 DEF Typed, CommandTypeOK
    <2>1. CASE q = p
        BY <1>1, <1>4, <2>1 DEF Others
    <2>2. CASE r = p
        BY <1>1, <1>4, <2>0, <2>2 DEF Others
    <2>3. CASE q # p /\ r # p
        BY <1>1, <1>4, <2>0, <2>3 DEF AloneOK, Active
    <2> QED
        BY <2>1, <2>2, <2>3
<1>6. UnsureOK'
    <2> SUFFICES ASSUME NEW q \in Process, pc'[q] # "idle" PROVE meant'[entry'[q]] = Unknown
        BY DEF UnsureOK, Active
    <2>1. CASE q = p
        BY <1>1, <2>1
    <2>2. CASE q # p
        BY <1>1, <2>2 DEF UnsureOK, Active, Typed, CommandTypeOK
    <2> QED
        BY <2>1, <2>2
<1>7. SeenOK'
    <2> SUFFICES ASSUME NEW q \in Process, pc'[q] \in {"save", "write"},
                        NEW f \in FileOf(entry'[q]), f # entry'[q], meant'[f] # Unknown
                 PROVE  seen[q][f] = meant'[f]
        BY <1>1 DEF SeenOK, FileOf
    <2>1. q # p /\ entry'[q] = entry[q] /\ entry[q] \in Entry
        BY <1>1 DEF Typed, CommandTypeOK
    <2>2. f \in Entry /\ f # e
        BY <1>1, <2>1, FileFacts
    <2> QED
        BY <1>1, <2>1, <2>2 DEF SeenOK
<1>8. LoadedOK'
    BY <1>1, <1>4 DEF LoadedOK, Typed, CommandTypeOK
<1>9. DoneOK'
    <2> SUFFICES ASSUME NEW q \in alone', pc'[q] \in {"load", "save", "write", "purge"}
                 PROVE  /\ Removes(q)' => entry'[q] \notin registered
                        /\ Creates(q)' => entry'[q] \in registered \cap unpacked \cap configured
        BY <1>1 DEF DoneOK
    <2>1. CASE q = p
        BY <1>1, <2>1 DEF Removes, Creates
    <2>2. CASE q # p
        BY <1>1, <1>4, <2>2 DEF DoneOK, Removes, Creates, Typed, CommandTypeOK
    <2> QED
        BY <2>1, <2>2
<1>10. PromiseKept' /\ RunnersOK'
    BY <1>1, <1>2 DEF PromiseKept, RunnersOK, Entry
<1> QED
    BY <1>3, <1>5, <1>6, <1>7, <1>8, <1>9, <1>10

\* The file is read; what somebody else is writing is not there.
LEMMA LoadKeepsFiles ==
    ASSUME Typed, FilesInv, NEW p \in Process, Load(p)
    PROVE  FilesInv'
<1> USE DEF FilesInv
<1>1. /\ pc[p] = "load" /\ pc'[p] = "save" /\ seen'[p] = book
      /\ \A q \in Process : q # p => pc'[q] = pc[q] /\ seen'[q] = seen[q]
      /\ UNCHANGED <<kind, entry, number, alone, book, registered, unpacked, configured>>
    BY DEF Load, At, Goto, Typed, CommandTypeOK, FileTypeOK, diskVars
<1>2. \A e \in Entry : meant'[e] \in {meant[e], Unknown}
    BY DEF Load, Lost
<1>3. Torn(entry[p]) => \A e \in FileOf(entry[p]) : meant'[e] = Unknown
    BY FileFacts DEF Load, Lost, Typed, CommandTypeOK
<1>4. \A e \in Entry : Torn(e)' <=> Torn(e)
    BY <1>1 DEF Torn, At
<1>5. StagesOK'
    BY <1>1 DEF StagesOK, Active, Creates, Removes
<1>6. AloneOK'
    BY <1>1 DEF AloneOK, Active, Typed, CommandTypeOK
<1>7. UnsureOK'
    BY <1>1, <1>2 DEF UnsureOK, Active, Typed, CommandTypeOK
<1>8. SeenOK'
    <2> SUFFICES ASSUME NEW q \in Process, pc'[q] \in {"save", "write"},
                        NEW e \in FileOf(entry[q]), e # entry[q], meant'[e] # Unknown
                 PROVE  seen'[q][e] = meant'[e]
        BY <1>1 DEF SeenOK
    <2>1. entry[q] \in Entry /\ e \in Entry /\ FileOf(e) = FileOf(entry[q])
        BY FileFacts DEF Typed, CommandTypeOK
    <2>2. meant'[e] = meant[e]
        BY <1>2, <2>1
    <2>3. CASE q = p
        <3>1. ~ Torn(e)
            BY <1>3, <2>1, <2>3 DEF Torn
        <3> QED
            BY <1>1, <2>1, <2>2, <2>3, <3>1 DEF PromiseKept
    <2>4. CASE q # p
        BY <1>1, <2>2, <2>4 DEF SeenOK
    <2> QED
        BY <2>3, <2>4
<1>9. LoadedOK'
    BY <1>1 DEF LoadedOK, Typed, CommandTypeOK
<1>10. DoneOK'
    BY <1>1 DEF DoneOK, Removes, Creates, Typed, CommandTypeOK
<1>11. PromiseKept' /\ RunnersOK'
    BY <1>1, <1>2, <1>4 DEF PromiseKept, RunnersOK, Entry
<1> QED
    BY <1>5, <1>6, <1>7, <1>8, <1>9, <1>10, <1>11

\* A file that is truncated has no promise left to keep until it is written.
LEMMA TruncateKeepsFiles ==
    ASSUME Typed, FilesInv, NEW p \in Process, Truncate(p)
    PROVE  FilesInv'
<1> USE DEF FilesInv
<1>1. /\ pc[p] = "save" /\ pc'[p] = "write"
      /\ \A q \in Process : q # p => pc'[q] = pc[q]
      /\ \A e \in Entry : e \notin FileOf(entry[p]) => book'[e] = book[e]
      /\ UNCHANGED <<kind, entry, number, alone, seen, meant, registered, unpacked, configured>>
    BY DEF Truncate, At, Goto, Typed, CommandTypeOK, FileTypeOK, diskVars, restOfCommand
<1>2. entry \in [Process -> Entry] /\ alone \subseteq Process
    BY DEF Typed, CommandTypeOK
<1>3. StagesOK'
    BY <1>1 DEF StagesOK, Active, Creates, Removes
<1>4. AloneOK' /\ UnsureOK'
    BY <1>1, <1>2 DEF AloneOK, UnsureOK, Active
<1>5. SeenOK'
    BY <1>1 DEF SeenOK
<1>6. LoadedOK'
    <2> SUFFICES ASSUME NEW q \in alone, pc'[q] \in {"save", "purge"}
                 PROVE  q # p /\ book'[entry[q]] = book[entry[q]]
        BY <1>1, <1>2 DEF LoadedOK
    <2>1. q # p /\ FileOf(entry[q]) # FileOf(entry[p])
        BY <1>1, <1>2 DEF AloneOK, Active
    <2> QED
        BY <1>1, <1>2, <2>1, FileFacts
<1>7. DoneOK'
    BY <1>1, <1>2 DEF DoneOK, Removes, Creates
<1>9. RunnersOK'
    BY <1>1 DEF RunnersOK
<1>8. PromiseKept'
    <2> SUFFICES ASSUME NEW e \in Entry, meant[e] # Unknown, ~ Torn(e)'
                 PROVE  ~ Torn(e) /\ book'[e] = book[e]
        BY <1>1 DEF PromiseKept
    <2>1. ~ Torn(e)
        BY <1>1 DEF Torn, At
    <2>2. FileOf(e) # FileOf(entry[p])
        BY <1>1 DEF Torn, At
    <2> QED
        BY <1>1, <1>2, <2>1, <2>2, FileFacts
<1> QED
    BY <1>3, <1>4, <1>5, <1>6, <1>7, <1>8, <1>9

\* A file that stays truncated is forgotten.
LEMMA ForgettingKeepsFiles ==
    ASSUME Typed, FilesInv, NEW p \in Process,
           pc' = [pc EXCEPT ![p] = "idle"], Lost(FileOf(entry[p])),
           UNCHANGED <<kind, entry, number, alone, seen, book, registered, unpacked, configured>>
    PROVE  FilesInv'
<1> USE DEF FilesInv
<1>1. /\ pc'[p] = "idle"
      /\ \A q \in Process : q # p => pc'[q] = pc[q]
      /\ \A e \in Entry : meant'[e] = IF e \in FileOf(entry[p]) THEN Unknown ELSE meant[e]
      /\ entry \in [Process -> Entry] /\ alone \subseteq Process
    BY DEF Lost, Typed, CommandTypeOK
<1>2. StagesOK'
    BY <1>1 DEF StagesOK, Active, Creates, Removes
<1>3. AloneOK' /\ UnsureOK'
    BY <1>1 DEF AloneOK, UnsureOK, Active
<1>4. SeenOK'
    BY <1>1, FileFacts DEF SeenOK
<1>5. LoadedOK' /\ DoneOK'
    BY <1>1 DEF LoadedOK, DoneOK, Removes, Creates
<1>7. RunnersOK'
    BY <1>1 DEF RunnersOK, Entry
<1>6. PromiseKept'
    <2> SUFFICES ASSUME NEW e \in Entry, meant'[e] # Unknown, ~ Torn(e)'
                 PROVE  ~ Torn(e) /\ meant'[e] = meant[e]
        BY DEF PromiseKept
    <2>1. e \notin FileOf(entry[p])
        BY <1>1
    <2>2. FileOf(e) # FileOf(entry[p])
        BY <1>1, <2>1, FileFacts
    <2> QED
        BY <1>1, <2>1, <2>2 DEF Torn, At
<1> QED
    BY <1>2, <1>3, <1>4, <1>5, <1>6, <1>7

\* What a command leaves in its entry.
Result(p) == IF Deletes(p) THEN Absent ELSE number[p]

\* A command has put its entry right, or, when it was not by itself, may have:
\* it succeeds, or goes on to purge.
LEMMA SucceedingKeepsFiles ==
    ASSUME Typed, FilesInv, NEW p \in Process, NEW k \in {"idle", "purge"},
           pc[p] \in {"save", "write", "purge"},
           pc' = [pc EXCEPT ![p] = k],
           UNCHANGED <<kind, entry, number, alone, seen, registered>>,
           \A n \in Runner : n # entry[p] \/ Creates(p) =>
               (n \in unpacked' <=> n \in unpacked) /\ (n \in configured' <=> n \in configured),
           \A e \in Entry : e \notin FileOf(entry[p]) => book'[e] = book[e],
           \A e \in FileOf(entry[p]) :
               e # entry[p] /\ meant[e] # Unknown /\ ~ Torn(e)' => book'[e] = meant[e],
           p \in alone => book'[entry[p]] = Result(p),
           k = "purge" => kind[p] = "purge" /\ UNCHANGED meant,
           k = "idle" => meant' = IF p \in alone THEN [meant EXCEPT ![entry[p]] = Result(p)]
                                                ELSE meant
    PROVE  FilesInv'
<1> USE DEF FilesInv
<1>1. /\ pc'[p] = k /\ Active(p)
      /\ \A q \in Process : q # p => pc'[q] = pc[q]
      /\ \A q \in Process : Active(q)' => Active(q)
      /\ entry \in [Process -> Entry] /\ alone \subseteq Process /\ entry[p] \in Entry
    BY DEF Typed, CommandTypeOK, Active
<1>2. \A e \in Entry : meant'[e] = meant[e] \/
          (e = entry[p] /\ p \in alone /\ k = "idle" /\ meant'[e] = Result(p))
    BY DEF Typed, FileTypeOK
<1>3. \A q \in Process : q # p /\ Active(q) /\ (p \in alone \/ q \in alone) =>
          FileOf(entry[q]) # FileOf(entry[p])
    BY <1>1 DEF AloneOK
<1>4. StagesOK'
    BY <1>1 DEF StagesOK, Active, Creates, Removes
<1>5. AloneOK'
    BY <1>1 DEF AloneOK
<1>6. UnsureOK'
    <2> SUFFICES ASSUME NEW q \in Process, Active(q)'
                 PROVE  meant'[entry[q]] = Unknown
        BY DEF UnsureOK
    <2>1. CASE q = p
        BY <1>1, <2>1 DEF UnsureOK, Active
    <2>2. CASE q # p
        BY <1>1, <1>2, <1>3, <2>2 DEF UnsureOK
    <2> QED
        BY <2>1, <2>2
<1>7. SeenOK'
    <2> SUFFICES ASSUME NEW q \in Process, pc'[q] \in {"save", "write"},
                        NEW e \in FileOf(entry[q]), e # entry[q], meant'[e] # Unknown
                 PROVE  seen[q][e] = meant'[e]
        BY DEF SeenOK
    <2>1. q # p /\ pc[q] = pc'[q] /\ Active(q)
        BY <1>1 DEF Active
    <2>2. e \in Entry /\ FileOf(e) = FileOf(entry[q])
        BY <1>1, FileFacts
    <2>3. meant'[e] = meant[e]
        BY <1>2, <1>3, <2>1, <2>2
    <2> QED
        BY <2>1, <2>3 DEF SeenOK
<1>8. LoadedOK'
    <2> SUFFICES ASSUME NEW q \in alone, pc'[q] \in {"save", "purge"}
                 PROVE  /\ pc'[q] = "save" => seen[q][entry[q]] = book'[entry[q]]
                        /\ pc'[q] = "purge" => book'[entry[q]] = Absent
        BY DEF LoadedOK
    <2>1. CASE q = p
        BY <1>1, <2>1 DEF Result, Deletes
    <2>2. CASE q # p
        <3>1. pc[q] = pc'[q] /\ FileOf(entry[q]) # FileOf(entry[p])
            BY <1>1, <1>3, <2>2 DEF Active
        <3>2. book'[entry[q]] = book[entry[q]]
            BY <1>1, <3>1, FileFacts
        <3> QED
            BY <3>1, <3>2 DEF LoadedOK
    <2> QED
        BY <2>1, <2>2
<1>9. DoneOK'
    <2> SUFFICES ASSUME NEW q \in alone, pc'[q] \in {"load", "save", "write", "purge"}
                 PROVE  /\ Removes(q) => entry[q] \notin registered
                        /\ Creates(q) => entry[q] \in registered \cap unpacked' \cap configured'
        BY DEF DoneOK, Removes, Creates
    <2>1. pc[q] \in {"load", "save", "write", "purge"} /\ Active(q)
        BY <1>1 DEF Active
    <2>2. Creates(q) => entry[q] \in Runner
        BY <1>1, <2>1 DEF StagesOK
    <2>3. Creates(q) => entry[q] # entry[p] \/ Creates(p)
        BY <1>1, <1>3, <2>1
    <2> QED
        BY <2>1, <2>2, <2>3 DEF DoneOK
<1>10. RunnersOK'
    <2> SUFFICES ASSUME NEW n \in Runner, meant'[n] # Unknown
                 PROVE  /\ meant'[n] # Absent <=> n \in registered
                        /\ meant'[n] # Absent => n \in unpacked' \cap configured'
        BY DEF RunnersOK
    <2>0. n \in Entry
        BY DEF Entry
    <2>1. CASE n = entry[p]
        <3>1. p \in alone /\ meant'[n] = Result(p)
            BY <1>1, <1>2, <2>0, <2>1 DEF UnsureOK
        <3>2. Creates(p) \/ Removes(p)
            BY <1>1, <2>1 DEF StagesOK
        <3>3. /\ Removes(p) => n \notin registered
              /\ Creates(p) => n \in registered \cap unpacked \cap configured
            BY <2>1, <3>1 DEF DoneOK
        <3>4. /\ Removes(p) => Result(p) = Absent
              /\ Creates(p) => Result(p) = number[p] /\ number[p] >= 1
            BY <1>1 DEF Result, Deletes, Removes, Creates, StagesOK
        <3>5. Creates(p) => Result(p) # Absent
            BY <3>4 DEF Absent, Typed, CommandTypeOK
        <3> QED
            BY <2>1, <3>1, <3>2, <3>3, <3>4, <3>5
    <2>2. CASE n # entry[p]
        <3>1. meant'[n] = meant[n]
            BY <1>2, <2>0, <2>2
        <3> QED
            BY <2>2, <3>1 DEF RunnersOK
    <2> QED
        BY <2>1, <2>2
<1>11. \A e \in Entry : meant'[e] # Unknown /\ ~ Torn(e)' => book'[e] = meant'[e]
    <2> TAKE e \in Entry
    <2> HAVE meant'[e] # Unknown /\ ~ Torn(e)'
    <2>1. CASE e = entry[p]
        BY <1>1, <1>2, <2>1 DEF UnsureOK
    <2>2. CASE e # entry[p] /\ e \in FileOf(entry[p])
        BY <1>2, <2>2
    <2>3. CASE e \notin FileOf(entry[p])
        <3>1. FileOf(e) # FileOf(entry[p]) /\ e # entry[p]
            BY <1>1, <2>3, FileFacts
        <3>2. ~ Torn(e)
            BY <1>1, <3>1 DEF Torn, At
        <3> QED
            BY <1>2, <2>3, <3>1, <3>2 DEF PromiseKept
    <2> QED
        BY <2>1, <2>2, <2>3
<1>12. PromiseKept'
    BY <1>10, <1>11 DEF PromiseKept, RunnersOK, Entry
<1> QED
    BY <1>4, <1>5, <1>6, <1>7, <1>8, <1>9, <1>10, <1>12

-----------------------------------------------------------------------------
(* The steps.                                                              *)

\* Which commands begin, and where.
LEMMA CommandsKeepFiles ==
    ASSUME Typed, FilesInv, NEW p \in Process, Commands(p)
    PROVE  FilesInv'
<1>1. ASSUME NEW n \in Runner, CreateRunner(p, n) PROVE FilesInv'
    BY <1>1, BeginKeepsFiles DEF CreateRunner, Kinds, Entry
<1>2. ASSUME NEW n \in Runner, RemoveRunner(p, n) PROVE FilesInv'
    BY <1>2, BeginKeepsFiles DEF RemoveRunner, Kinds, Entry
<1>3. ASSUME NEW n \in Runner, UpgradeRunner(p, n) PROVE FilesInv'
    BY <1>3, BeginKeepsFiles DEF UpgradeRunner, Kinds, Entry
<1>4. "login" \in Entry \ Runner /\ "machine" \in Entry \ Runner
    BY MachineAssumption DEF Entry, Credential
<1>5. CASE Login(p) \/ Logout(p) \/ RotateCredential(p)
    BY <1>4, <1>5, BeginKeepsFiles DEF Login, Logout, RotateCredential, Kinds
<1> QED
    BY <1>1, <1>2, <1>3, <1>5 DEF Commands

LEMMA StepsKeepFiles ==
    ASSUME Typed, FilesInv, NEW p \in Process, Steps(p)
    PROVE  FilesInv'
<1>0. /\ {"idle", "load", "install", "check", "clear", "deregister"} \subseteq Stages
      /\ \A k \in Stages : Goto(p, k) <=> pc' = [pc EXCEPT ![p] = k]
    BY DEF Stages, Goto
<1>1. CASE Refused(p) \/ RemoveFails(p) \/ LoadFails(p)
    BY <1>0, <1>1, WorkingKeepsFiles
       DEF Refused, RemoveFails, LoadFails, Fails, At, Active, restOfCommand, diskVars
<1>2. CASE Install(p)
    <2>1. Creates(p) /\ ~ Removes(p)
        BY <1>2 DEF Install, At, FilesInv, StagesOK, Active, Creates, Removes
    <2> QED
        BY <1>0, <1>2, <2>1, WorkingKeepsFiles
           DEF Install, Fails, At, Active, restOfCommand, diskVars
<1>3. CASE InstallFails(p)
    BY <1>0, <1>3, WorkingKeepsFiles DEF InstallFails, Fails, At, Active, restOfCommand
<1>4. CASE LookUp(p)
    <2>1. Removes(p) /\ ~ Creates(p)
        BY <1>4 DEF LookUp, Removes, Creates
    <2>2. PICK k \in {"deregister", "load", "idle"} :
              Goto(p, k) /\ (k = "load" => entry[p] \notin registered)
        BY <1>4 DEF LookUp
    <2>3. /\ UNCHANGED <<kind, entry, number, alone, seen, book, meant, registered, unpacked, configured>>
          /\ pc[p] = "look"
        BY <1>4 DEF LookUp, At, diskVars
    <2> QED
        BY <1>0, <2>1, <2>2, <2>3, WorkingKeepsFiles DEF Active
<1>5. CASE DeleteRunner(p)
    <2>1. Removes(p) /\ ~ Creates(p)
        BY <1>5 DEF DeleteRunner, At, FilesInv, StagesOK, Active, Creates, Removes
    <2> QED
        BY <1>0, <1>5, <2>1, WorkingKeepsFiles
           DEF DeleteRunner, At, Active, restOfCommand, diskVars
<1>6. CASE ListStale(p)
    BY <1>0, <1>6, WorkingKeepsFiles DEF ListStale, At, Active, restOfCommand, diskVars
<1>7. CASE CheckJob(p)
    <2>1. kind[p] = "upgrade"
        BY <1>7 DEF CheckJob, At, FilesInv, StagesOK, Active
    <2> QED
        BY <1>0, <1>7, <2>1, WorkingKeepsFiles DEF CheckJob, At, Active, restOfCommand, diskVars
<1>8. CASE Clear(p)
    <2>1. Creates(p)
        BY <1>8 DEF Clear, At, FilesInv, StagesOK, Active, Creates
    <2> QED
        BY <1>0, <1>8, <2>1, WorkingKeepsFiles DEF Clear, At, Active, restOfCommand
<1>9. CASE ClearFails(p) \/ PurgeFails(p)
    BY <1>0, <1>9, WorkingKeepsFiles
       DEF ClearFails, PurgeFails, Fails, At, Active, restOfCommand
<1>10. CASE Killed(p)
    <2>1. CASE pc[p] = "write"
        BY <1>10, <2>1, ForgettingKeepsFiles DEF Killed, At, Goto, restOfCommand, diskVars
    <2>2. CASE pc[p] # "write"
        BY <1>0, <1>10, <2>2, WorkingKeepsFiles
           DEF Killed, At, Active, restOfCommand, diskVars
    <2> QED
        BY <2>1, <2>2
<1>11. CASE Purge(p)
    <2>1. kind[p] = "purge" /\ ~ Creates(p) /\ Result(p) = Absent
        BY <1>11 DEF Purge, At, FilesInv, StagesOK, Active, Creates, Result, Deletes
    <2>2. /\ pc[p] = "purge" /\ pc' = [pc EXCEPT ![p] = "idle"]
          /\ meant' = IF p \in alone THEN [meant EXCEPT ![entry[p]] = Result(p)] ELSE meant
          /\ UNCHANGED <<kind, entry, number, alone, seen, registered, book>>
          /\ unpacked' = unpacked \ {entry[p]} /\ configured' = configured \ {entry[p]}
        BY <1>11, <2>1 DEF Purge, Succeeds, At, Goto, restOfCommand
    <2>3. p \in alone => book[entry[p]] = Result(p)
        BY <2>1, <2>2 DEF FilesInv, LoadedOK
    <2>4. \A e \in FileOf(entry[p]) :
              meant[e] # Unknown /\ ~ Torn(e)' => book[e] = meant[e]
        <3>1. \A e \in Entry : ~ Torn(e)' => ~ Torn(e)
            BY <2>2 DEF Torn, At, Typed, CommandTypeOK
        <3> QED
            BY <3>1, FileFacts DEF FilesInv, PromiseKept, Typed, CommandTypeOK
    <2> QED
        BY <2>1, <2>2, <2>3, <2>4, SucceedingKeepsFiles
<1> QED
    BY <1>1, <1>2, <1>3, <1>4, <1>5, <1>6, <1>7, <1>8, <1>9, <1>10, <1>11 DEF Steps

LEMMA FilesKeepFiles ==
    ASSUME Typed, FilesInv, NEW p \in Process, Files(p)
    PROVE  FilesInv'
<1>1. CASE Load(p)
    BY <1>1, LoadKeepsFiles
<1>2. CASE LoadFails(p)
    BY <1>2, WorkingKeepsFiles
       DEF LoadFails, Fails, Goto, At, Active, restOfCommand, diskVars, Stages
<1>3. CASE Truncate(p)
    BY <1>3, TruncateKeepsFiles
<1>4. CASE WriteFails(p)
    BY <1>4, ForgettingKeepsFiles DEF WriteFails, At, Goto, restOfCommand, diskVars
<1>5. ASSUME Recorded(p), pc[p] \in {"save", "write"},
             UNCHANGED <<restOfCommand, registered, diskVars>>,
             \A e \in Entry : e \notin FileOf(entry[p]) => book'[e] = book[e],
             \A e \in FileOf(entry[p]) :
                 e # entry[p] /\ meant[e] # Unknown /\ ~ Torn(e)' => book'[e] = meant[e],
             p \in alone => book'[entry[p]] = Result(p)
      PROVE  FilesInv'
    <2>1. UNCHANGED <<kind, entry, number, alone, seen, registered, unpacked, configured>>
        BY <1>5 DEF restOfCommand, diskVars
    <2>2. CASE kind[p] = "purge" /\ known[p]
        <3>1. pc' = [pc EXCEPT ![p] = "purge"] /\ UNCHANGED meant
            BY <1>5, <2>2 DEF Recorded, Goto
        <3> QED
            BY <1>5, <2>1, <2>2, <3>1, SucceedingKeepsFiles
    <2>3. CASE ~ (kind[p] = "purge" /\ known[p])
        <3>1. /\ pc' = [pc EXCEPT ![p] = "idle"]
              /\ meant' = IF p \in alone THEN [meant EXCEPT ![entry[p]] = Result(p)] ELSE meant
            BY <1>5, <2>3 DEF Recorded, Succeeds, Goto, Result
        <3> QED
            BY <1>5, <2>1, <3>1, SucceedingKeepsFiles
    <2> QED
        BY <2>2, <2>3
<1>6. CASE NothingToDelete(p)
    <2>1. /\ pc[p] = "save" /\ Deletes(p) /\ seen[p][entry[p]] = Absent /\ Recorded(p)
          /\ UNCHANGED <<restOfCommand, book, registered, diskVars>>
        BY <1>6 DEF NothingToDelete, At
    <2>2. p \in alone => book[entry[p]] = Result(p)
        BY <2>1 DEF FilesInv, LoadedOK, Result
    <2>3. \A e \in Entry : ~ Torn(e)' => ~ Torn(e)
        <3>1. \A q \in Process : pc[q] = "write" => pc'[q] = "write"
            BY <2>1 DEF Recorded, Succeeds, Goto, Typed, CommandTypeOK
        <3> QED
            BY <2>1, <3>1 DEF Torn, At, restOfCommand
    <2>4. \A e \in FileOf(entry[p]) : meant[e] # Unknown /\ ~ Torn(e)' => book[e] = meant[e]
        BY <2>3, FileFacts DEF FilesInv, PromiseKept, Typed, CommandTypeOK
    <2> QED
        BY <1>5, <2>1, <2>2, <2>4
<1>7. CASE RemoveFile(p) \/ Write(p)
    <2>1. /\ pc[p] \in {"save", "write"} /\ Recorded(p) /\ book' = Changed(p)
          /\ UNCHANGED <<restOfCommand, registered, diskVars>>
        BY <1>7 DEF RemoveFile, Write, At
    <2>2. entry[p] \in Entry
        BY DEF Typed, CommandTypeOK
    <2>3. /\ \A e \in Entry : e \notin FileOf(entry[p]) => book'[e] = book[e]
          /\ book'[entry[p]] = Result(p)
          /\ \A e \in FileOf(entry[p]) : e # entry[p] => book'[e] = seen[p][e]
        BY <2>1, <2>2, FileFacts DEF Changed, Result
    <2>4. \A e \in FileOf(entry[p]) :
              e # entry[p] /\ meant[e] # Unknown => book'[e] = meant[e]
        BY <2>1, <2>3 DEF FilesInv, SeenOK
    <2> QED
        BY <1>5, <2>1, <2>3, <2>4
<1> QED
    BY <1>1, <1>2, <1>3, <1>4, <1>6, <1>7 DEF Files

LEMMA JobsKeepFiles ==
    ASSUME Typed, FilesInv, Jobs
    PROVE  FilesInv'
<1> USE DEF FilesInv
<1>1. ASSUME UNCHANGED <<commandVars, book, registered, diskVars, meant>>
      PROVE  FilesInv'
    BY <1>1 DEF commandVars, diskVars, StagesOK, AloneOK, UnsureOK, SeenOK, LoadedOK, DoneOK,
        RunnersOK, PromiseKept, Active, Creates, Removes, Torn, At
<1>2. ASSUME NEW n \in Runner, Deregistered(n),
             UNCHANGED <<pc, kind, entry, number, seen, book, unpacked, configured>>
      PROVE  FilesInv'
    <2>1. /\ registered' = registered \ {n}
          /\ alone' \subseteq alone /\ \A p \in alone' : entry[p] # n
          /\ \A e \in Entry : meant'[e] = IF e = n THEN Unknown ELSE meant[e]
        BY <1>2 DEF Deregistered, Lost
    <2>2. alone \subseteq Process /\ entry \in [Process -> Entry]
        BY DEF Typed, CommandTypeOK
    <2>3. StagesOK' /\ AloneOK' /\ LoadedOK'
        BY <1>2, <2>1, <2>2 DEF StagesOK, AloneOK, LoadedOK, Active, Creates, Removes
    <2>4. UnsureOK' /\ SeenOK'
        BY <1>2, <2>1, <2>2, FileFacts DEF UnsureOK, SeenOK, Active
    <2>5. DoneOK'
        BY <1>2, <2>1, <2>2 DEF DoneOK, Creates, Removes
    <2>6. RunnersOK'
        BY <1>2, <2>1 DEF RunnersOK, Entry
    <2>7. PromiseKept'
        BY <1>2, <2>1, <2>2 DEF PromiseKept, Torn, At
    <2> QED
        BY <2>3, <2>4, <2>5, <2>6, <2>7
<1>3. ASSUME NEW n \in Runner, FinishJob(n) \/ GitHubForgets(n)
      PROVE  FilesInv'
    <2>1. CASE Deregistered(n)
        BY <1>2, <1>3, <2>1 DEF FinishJob, GitHubForgets, diskVars
    <2>2. CASE UNCHANGED <<registered, alone, meant>>
        BY <1>1, <1>3, <2>2 DEF FinishJob, GitHubForgets, commandVars
    <2> QED
        BY <1>3, <2>1, <2>2 DEF FinishJob, GitHubForgets
<1> QED
    BY <1>1, <1>3 DEF Jobs, StartAgent, TakeJob, StopAgent

-----------------------------------------------------------------------------
(* Types.                                                                  *)

\* A step of a command, but its beginning.
LEMMA StepsKeepCommands ==
    ASSUME CommandTypeOK, NEW p \in Process, Files(p) \/ Steps(p)
    PROVE  CommandTypeOK'
<1>1. UNCHANGED <<turn, kind, entry, number, alone>>
    BY DEF Files, Steps, Load, LoadFails, NothingToDelete, RemoveFile, Truncate, Write,
           WriteFails, Refused, Install, InstallFails, LookUp, DeleteRunner, RemoveFails, Purge,
           PurgeFails, ListStale, CheckJob, Clear, ClearFails, Killed, restOfCommand
<1>2. \E k \in Stages : pc' = [pc EXCEPT ![p] = k]
    BY DEF Files, Steps, Load, LoadFails, NothingToDelete, RemoveFile, Truncate, Write,
           WriteFails, Refused, Install, InstallFails, LookUp, DeleteRunner, RemoveFails, Purge,
           PurgeFails, ListStale, CheckJob, Clear, ClearFails, Killed, Recorded, Succeeds, Fails,
           Goto, Stages
<1> QED
    BY <1>1, <1>2 DEF CommandTypeOK

LEMMA BeginKeepsTypes ==
    ASSUME Typed, NEW p \in Process, Commands(p)
    PROVE  Typed'
<1>1. PICK k \in Kinds, e \in Entry, first \in Stages : Begin(p, k, e, first)
    <2>1. "login" \in Entry /\ "machine" \in Entry
        BY DEF Entry, Credential
    <2> QED
        BY <2>1 DEF Commands, CreateRunner, RemoveRunner, UpgradeRunner, Login, Logout,
            RotateCredential, Kinds, Stages, Entry
<1>2. CommandTypeOK'
    <2>1. alone' \subseteq Process
        BY <1>1 DEF Begin, Typed, CommandTypeOK
    <2>2. turn' \in 0 .. MaxCommands /\ turn + 1 \in 0 .. MaxCommands
        BY <1>1, Constants DEF Begin, Typed, CommandTypeOK
    <2> QED
        BY <1>1, <2>1, <2>2 DEF Begin, Goto, Typed, CommandTypeOK
<1>3. FileTypeOK'
    BY <1>1, Constants DEF Begin, Lost, Typed, FileTypeOK
<1>4. RunnerTypeOK'
    BY <1>1 DEF Begin, Typed, RunnerTypeOK, diskVars, jobVars
<1> QED
    BY <1>2, <1>3, <1>4 DEF Typed

LEMMA FileTypesNext ==
    ASSUME Typed, NEW p \in Process, Files(p) \/ Steps(p)
    PROVE  FileTypeOK'
<1> USE DEF FileTypeOK
<1>1. /\ Changed(p) \in [Entry -> 0 .. MaxCommands]
      /\ [e \in Entry |-> IF e \in FileOf(entry[p]) THEN Absent ELSE book[e]]
            \in [Entry -> 0 .. MaxCommands]
    BY Constants DEF Changed, Typed, CommandTypeOK
<1>2. seen' \in [Process -> [Entry -> 0 .. MaxCommands]]
    <2>1. seen' = seen \/ seen' = [seen EXCEPT ![p] = book]
        BY DEF Files, Steps, Load, LoadFails, NothingToDelete, RemoveFile, Truncate, Write,
            WriteFails, Refused, Install, InstallFails, LookUp, DeleteRunner, RemoveFails, Purge,
            PurgeFails, ListStale, CheckJob, Clear, ClearFails, Killed, restOfCommand
    <2> QED
        BY <2>1 DEF Typed
<1>3. book' \in [Entry -> 0 .. MaxCommands]
    <2>1. \/ book' = book \/ book' = Changed(p)
          \/ book' = [e \in Entry |-> IF e \in FileOf(entry[p]) THEN Absent ELSE book[e]]
        BY DEF Files, Steps, Load, LoadFails, NothingToDelete, RemoveFile, Truncate, Write,
            WriteFails, Refused, Install, InstallFails, LookUp, DeleteRunner, RemoveFails, Purge,
            PurgeFails, ListStale, CheckJob, Clear, ClearFails, Killed
    <2> QED
        BY <1>1, <2>1 DEF Typed
<1>4. meant' \in [Entry -> Unknown .. MaxCommands]
    <2>1. \/ meant' = meant
          \/ meant' = [meant EXCEPT ![entry[p]] = Absent]
          \/ meant' = [meant EXCEPT ![entry[p]] = number[p]]
          \/ Lost(FileOf(entry[p]))
        BY DEF Files, Steps, Load, LoadFails, NothingToDelete, RemoveFile, Truncate, Write,
            WriteFails, Refused, Install, InstallFails, LookUp, DeleteRunner, RemoveFails, Purge,
            PurgeFails, ListStale, CheckJob, Clear, ClearFails, Killed, Recorded, Succeeds, Fails
    <2>2. Absent \in Unknown .. MaxCommands /\ number[p] \in Unknown .. MaxCommands
          /\ Unknown \in Unknown .. MaxCommands
        BY Constants DEF Typed, CommandTypeOK
    <2> QED
        BY <2>1, <2>2 DEF Typed, Lost
<1> QED
    BY <1>2, <1>3, <1>4

LEMMA RunnerTypesNext ==
    ASSUME Typed, StagesOK, NEW p \in Process, Files(p) \/ Steps(p)
    PROVE  RunnerTypeOK'
<1> USE DEF RunnerTypeOK
<1>1. CASE Files(p)
    BY <1>1 DEF Typed, Files, Load, LoadFails, NothingToDelete, RemoveFile, Truncate, Write,
        WriteFails, diskVars, jobVars
<1>2. CASE Install(p) \/ InstallFails(p)
    <2>1. entry[p] \in Runner
        BY <1>2 DEF Install, InstallFails, At, StagesOK, Active, Creates
    <2> QED
        BY <1>2, <2>1 DEF Typed, Install, InstallFails, jobVars
<1>3. CASE Clear(p) \/ Purge(p)
    BY <1>3 DEF Typed, Clear, Purge, Thrown
<1>4. CASE CheckJob(p)
    BY <1>4 DEF Typed, CheckJob, diskVars
<1>5. CASE DeleteRunner(p) \/ ClearFails(p) \/ PurgeFails(p) \/ Killed(p) \/ LookUp(p)
             \/ RemoveFails(p) \/ ListStale(p) \/ Refused(p)
    BY <1>5 DEF Typed, DeleteRunner, ClearFails, PurgeFails, Killed, LookUp, RemoveFails,
        ListStale, Refused, diskVars, jobVars
<1> QED
    BY <1>1, <1>2, <1>3, <1>4, <1>5 DEF Steps

LEMMA JobsKeepTypes ==
    ASSUME Typed, Jobs
    PROVE  Typed'
<1>1. UNCHANGED <<turn, pc, kind, entry, number, seen, book, unpacked, configured>>
      /\ alone' \subseteq alone
    BY DEF Jobs, StartAgent, TakeJob, FinishJob, StopAgent, GitHubForgets, Deregistered,
           Typed, CommandTypeOK, commandVars, diskVars
<1>2. CommandTypeOK'
    BY <1>1 DEF Typed, CommandTypeOK
<1>3. FileTypeOK'
    <2>1. meant' = meant \/ \E n \in Runner : Lost({n})
        BY DEF Jobs, StartAgent, TakeJob, FinishJob, StopAgent, GitHubForgets, Deregistered
    <2> QED
        BY <1>1, <2>1, Constants DEF Typed, FileTypeOK, Lost
<1>4. RunnerTypeOK'
    <2>1. ASSUME NEW n \in Runner, StartAgent(n) PROVE RunnerTypeOK'
        BY <2>1 DEF StartAgent, Typed, RunnerTypeOK, diskVars
    <2>2. ASSUME NEW n \in Runner, TakeJob(n) PROVE RunnerTypeOK'
        BY <2>2 DEF TakeJob, Typed, RunnerTypeOK, diskVars
    <2>3. ASSUME NEW n \in Runner, FinishJob(n) PROVE RunnerTypeOK'
        BY <2>3 DEF FinishJob, Deregistered, Typed, RunnerTypeOK, diskVars
    <2>4. ASSUME NEW n \in Runner, StopAgent(n) PROVE RunnerTypeOK'
        BY <2>4 DEF StopAgent, Stops, Typed, RunnerTypeOK, diskVars
    <2>5. ASSUME NEW n \in Runner, GitHubForgets(n) PROVE RunnerTypeOK'
        BY <2>5 DEF GitHubForgets, Deregistered, Typed, RunnerTypeOK, diskVars, jobVars
    <2> QED
        BY <2>1, <2>2, <2>3, <2>4, <2>5 DEF Jobs
<1> QED
    BY <1>2, <1>3, <1>4 DEF Typed

LEMMA KnownNext ==
    ASSUME known \in [Process -> BOOLEAN], [Next]_vars
    PROVE  known' \in [Process -> BOOLEAN]
<1>1. ASSUME NEW p \in Process, NEW b \in BOOLEAN, known' = [known EXCEPT ![p] = b]
      PROVE  known' \in [Process -> BOOLEAN]
    BY <1>1
<1>2. ASSUME NEW p \in Process, Commands(p)
      PROVE  known' \in [Process -> BOOLEAN]
    <2>1. known' = [known EXCEPT ![p] = FALSE]
        BY <1>2 DEF Commands, CreateRunner, RemoveRunner, UpgradeRunner, Login, Logout,
            RotateCredential, Begin
    <2> QED
        BY <1>1, <2>1
<1>3. ASSUME NEW p \in Process, LookUp(p)
      PROVE  known' \in [Process -> BOOLEAN]
    <2>1. known' = [known EXCEPT ![p] = book[entry[p]] # Absent]
        BY <1>3 DEF LookUp
    <2>2. (book[entry[p]] # Absent) \in BOOLEAN
        OBVIOUS
    <2> QED
        BY <1>1, <2>1, <2>2
<1>4. ASSUME NEW p \in Process, Files(p)
      PROVE  UNCHANGED known
    BY <1>4 DEF Files, Load, LoadFails, NothingToDelete, RemoveFile, Truncate, Write,
        WriteFails, restOfCommand
<1>5. ASSUME NEW p \in Process, Steps(p), ~ LookUp(p)
      PROVE  UNCHANGED known
    BY <1>5 DEF Steps, Refused, Install, InstallFails, DeleteRunner, RemoveFails, Purge,
        PurgeFails, ListStale, CheckJob, Clear, ClearFails, Killed, restOfCommand
<1>6. CASE Jobs \/ UNCHANGED vars
    BY <1>6
       DEF Jobs, StartAgent, TakeJob, FinishJob, StopAgent, GitHubForgets, commandVars, vars
<1> QED
    BY <1>2, <1>3, <1>4, <1>5, <1>6 DEF Next

-----------------------------------------------------------------------------
(* The jobs.                                                               *)

\* A job that is recorded when an upgrade is about to clear began after it had
\* looked.
ClearOK ==
    \A p \in Process :
        pc[p] = "clear" /\ entry[p] \in busy \cap told => entry[p] \in fresh

LEMMA JobsNext ==
    ASSUME Typed, ClearOK, KnownJobsSpared, [Next]_vars
    PROVE  ClearOK' /\ KnownJobsSpared'
<1> USE DEF KnownJobsSpared
<1>0. pc \in [Process -> Stages] /\ entry \in [Process -> Entry]
    BY DEF Typed, CommandTypeOK
<1>1. ASSUME NEW p \in Process, NEW k \in Stages \ {"clear"}, pc' = [pc EXCEPT ![p] = k],
             \/ UNCHANGED entry
             \/ \E e \in Entry : entry' = [entry EXCEPT ![p] = e],
             busy' \subseteq busy, told' \subseteq told, UNCHANGED <<fresh, wronged>>
      PROVE  ClearOK' /\ KnownJobsSpared'
    BY <1>0, <1>1 DEF ClearOK
<1>2. ASSUME NEW p \in Process, Commands(p)
      PROVE  ClearOK' /\ KnownJobsSpared'
    <2>1. PICK k \in Kinds, e \in Entry, first \in Stages \ {"clear"} : Begin(p, k, e, first)
        <3>1. "login" \in Entry /\ "machine" \in Entry
            BY DEF Entry, Credential
        <3> QED
            BY <1>2, <3>1
               DEF Commands, CreateRunner, RemoveRunner, UpgradeRunner, Login, Logout,
                RotateCredential, Kinds, Stages, Entry
    <2> QED
        BY <1>1, <2>1 DEF Begin, Goto, jobVars
<1>3. ASSUME NEW p \in Process, Files(p)
      PROVE  ClearOK' /\ KnownJobsSpared'
    <2>1. PICK k \in Stages \ {"clear"} : pc' = [pc EXCEPT ![p] = k]
        BY <1>3 DEF Files, Load, LoadFails, NothingToDelete, RemoveFile, Truncate, Write,
            WriteFails, Recorded, Succeeds, Fails, Goto, Stages
    <2>2. UNCHANGED <<entry, busy, told, fresh, wronged>>
        BY <1>3 DEF Files, Load, LoadFails, NothingToDelete, RemoveFile, Truncate, Write,
            WriteFails, restOfCommand, jobVars
    <2> QED
        BY <1>1, <2>1, <2>2
<1>4. ASSUME NEW p \in Process, Steps(p), ~ CheckJob(p), ~ Clear(p)
      PROVE  ClearOK' /\ KnownJobsSpared'
    <2>1. PICK k \in Stages \ {"clear"} : pc' = [pc EXCEPT ![p] = k]
        BY <1>4 DEF Steps, Refused, Install, InstallFails, LookUp, DeleteRunner, RemoveFails,
            Purge, PurgeFails, ListStale, ClearFails, Killed, Succeeds, Fails, Goto, Stages
    <2>2. UNCHANGED <<entry, fresh, wronged>> /\ busy' \subseteq busy /\ told' \subseteq told
        BY <1>4 DEF Steps, Refused, Install, InstallFails, LookUp, DeleteRunner, RemoveFails,
            Purge, Thrown, PurgeFails, ListStale, ClearFails, Killed, restOfCommand, jobVars
    <2> QED
        BY <1>1, <2>1, <2>2
<1>5. ASSUME NEW p \in Process, CheckJob(p)
      PROVE  ClearOK' /\ KnownJobsSpared'
    BY <1>0, <1>5 DEF CheckJob, MayUpgrade, Goto, At, ClearOK, restOfCommand
<1>6. ASSUME NEW p \in Process, Clear(p)
      PROVE  ClearOK' /\ KnownJobsSpared'
    BY <1>0, <1>6 DEF Clear, Thrown, Goto, At, ClearOK, restOfCommand
<1>7. ASSUME NEW n \in Runner, TakeJob(n)
      PROVE  ClearOK' /\ KnownJobsSpared'
    <2>1. UNCHANGED <<pc, entry, wronged>> /\ busy' = busy \cup {n} /\ told' \subseteq told \cup {n}
        BY <1>7 DEF TakeJob, commandVars
    <2>2. CASE \E p \in Process : entry[p] = n /\ At(p, "clear")
        <3>1. fresh' = fresh \cup {n}
            BY <1>7, <2>2 DEF TakeJob
        <3> QED
            BY <2>1, <3>1 DEF ClearOK
    <2>3. CASE ~ \E p \in Process : entry[p] = n /\ At(p, "clear")
        <3>1. fresh' = fresh \ {n}
            BY <1>7, <2>3 DEF TakeJob
        <3> QED
            BY <2>1, <2>3, <3>1 DEF ClearOK, At
    <2> QED
        BY <2>2, <2>3
<1>8. ASSUME UNCHANGED <<pc, entry, wronged, fresh>>, busy' \subseteq busy, told' \subseteq told
      PROVE  ClearOK' /\ KnownJobsSpared'
    BY <1>8 DEF ClearOK
<1>9. ASSUME NEW n \in Runner, StartAgent(n) \/ FinishJob(n) \/ StopAgent(n) \/ GitHubForgets(n)
      PROVE  ClearOK' /\ KnownJobsSpared'
    <2>1. UNCHANGED <<pc, entry, wronged, fresh>> /\ busy' \subseteq busy /\ told' \subseteq told
        BY <1>9 DEF StartAgent, FinishJob, StopAgent, Stops, GitHubForgets, commandVars, jobVars
    <2> QED
        BY <1>8, <2>1
<1>10. CASE UNCHANGED vars
    BY <1>8, <1>10 DEF vars, commandVars, jobVars
<1> QED
    BY <1>2, <1>3, <1>4, <1>5, <1>6, <1>7, <1>9, <1>10 DEF Next, Jobs

-----------------------------------------------------------------------------
(* The machine.                                                            *)

IInv == TypeOK /\ FilesInv /\ ClearOK /\ KnownJobsSpared

LEMMA IInvInit == Init => IInv
<1> SUFFICES ASSUME Init PROVE IInv
    OBVIOUS
<1>0. "login" \in Entry /\ "idle" \in Stages /\ "create" \in Kinds
    BY DEF Entry, Credential, Stages, Kinds
<1>1. CommandTypeOK /\ FileTypeOK /\ RunnerTypeOK
    BY <1>0, Constants DEF Init, CommandTypeOK, FileTypeOK, RunnerTypeOK
<1>2. known \in [Process -> BOOLEAN]
    BY DEF Init
<1>3. StagesOK /\ AloneOK /\ UnsureOK /\ SeenOK /\ LoadedOK /\ DoneOK
    BY DEF Init, StagesOK, AloneOK, UnsureOK, SeenOK, LoadedOK, DoneOK, Active
<1>4. RunnersOK /\ PromiseKept
    BY DEF Init, RunnersOK, PromiseKept, Entry
<1>5. ClearOK /\ KnownJobsSpared
    BY DEF Init, ClearOK, KnownJobsSpared
<1> QED
    BY <1>1, <1>2, <1>3, <1>4, <1>5 DEF IInv, TypeOK, FilesInv

LEMMA IInvNext == IInv /\ [Next]_vars => IInv'
<1> SUFFICES ASSUME IInv, [Next]_vars PROVE IInv'
    OBVIOUS
<1>0. Typed /\ FilesInv
    BY DEF IInv, TypeOK, Typed
<1>1. ClearOK' /\ KnownJobsSpared'
    BY <1>0, JobsNext DEF IInv
<1>2. known' \in [Process -> BOOLEAN]
    BY KnownNext DEF IInv, TypeOK
<1>3. ASSUME NEW p \in Process, Commands(p) PROVE Typed' /\ FilesInv'
    BY <1>0, <1>3, BeginKeepsTypes, CommandsKeepFiles
<1>4. ASSUME NEW p \in Process, Files(p) \/ Steps(p) PROVE Typed' /\ FilesInv'
    BY <1>0, <1>4, StepsKeepCommands, FileTypesNext, RunnerTypesNext, FilesKeepFiles,
       StepsKeepFiles DEF Typed, FilesInv
<1>5. ASSUME Jobs PROVE Typed' /\ FilesInv'
    BY <1>0, <1>5, JobsKeepTypes, JobsKeepFiles
<1>6. ASSUME UNCHANGED vars PROVE Typed' /\ FilesInv'
    <2>1. Typed'
        BY <1>0, <1>6
           DEF vars, commandVars, diskVars, jobVars, Typed, CommandTypeOK, FileTypeOK,
            RunnerTypeOK
    <2>2. FilesInv'
        BY <1>0, <1>6 DEF vars, commandVars, diskVars, FilesInv, StagesOK, AloneOK, UnsureOK,
            SeenOK, LoadedOK, DoneOK, RunnersOK, PromiseKept, Active, Creates, Removes, Torn, At
    <2> QED
        BY <2>1, <2>2
<1>7. Typed' /\ FilesInv'
    BY <1>3, <1>4, <1>5, <1>6 DEF Next
<1> QED
    BY <1>1, <1>2, <1>7 DEF IInv, TypeOK, Typed

\* The inductive invariant holds of the machine, whichever commands overlap.
THEOREM Invariant == Spec => []IInv
BY IInvInit, IInvNext, PTL DEF Spec

\* Every variable of the machine keeps its type.
THEOREM TypeCorrect == Spec => []TypeOK
<1>1. IInv => TypeOK
    BY DEF IInv
<1> QED
    BY <1>1, Invariant, PTL

\* However many commands overlap, one that succeeded, by itself at its file, is
\* obeyed (internal/state, internal/auth, runner create, remove, upgrade).
THEOREM PromisesAreKept == Spec => []PromiseKept
<1>1. IInv => PromiseKept
    BY DEF IInv, FilesInv
<1> QED
    BY <1>1, Invariant, PTL

\* No upgrade throws away a job it could have known of (upgradeRunners).
THEOREM KnownJobsAreSpared == Spec => []KnownJobsSpared
<1>1. IInv => KnownJobsSpared
    BY DEF IInv
<1> QED
    BY <1>1, Invariant, PTL
=============================================================================
