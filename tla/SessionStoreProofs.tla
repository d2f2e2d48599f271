-------------------------- MODULE SessionStoreProofs --------------------------
(***************************************************************************)
(* What a restart finds, for any number of sessions, changes and crashes.  *)
(***************************************************************************)
EXTENDS SessionStore, TLAPS

Running == pc \in {"idle", "files", "index"}

\* The writes of an operation: which are pending, and which file is open.
WritesInOrder ==
  /\ pc \in {"down", "idle", "index"} => todo = {} /\ open = NoFile
  /\ pc = "index" => ~index.valid
  /\ pc = "migrate" /\ todo # {} => legacyFile
  /\ pc = "migrate" => todo \subseteq Legacy
  /\ pc = "files" => todo \subseteq job
  /\ pc \in {"files", "index"} => job \subseteq InMemory
  /\ open # NoFile => open \in todo /\ file[open] = Nothing
  /\ ~Running => InMemory = {}

\* Whatever is on disk or in memory belongs to an id that was given out.
Given ==
  /\ Legacy \cup deleted \subseteq known
  /\ \A s \in Sessions \ known :
        mem[s] = Nothing /\ file[s] = Nothing /\ saved[s] = Nothing

\* A file holds what memory holds unless it is due, failed, or not asked for.
MemoryMatchesFiles ==
  Running => \A s \in InMemory \ (torn \cup unsaved \cup todo) : file[s] = mem[s]

\* What the operation under way has written is not unsaved.
JobIsSaved ==
  pc \in {"files", "index"} => \A s \in job \ (todo \cup torn) : s \notin unsaved

\* Between operations the index, if there is one, names what is in memory.
IndexMatchesMemory ==
  pc = "idle" /\ index.valid =>
      /\ InMemory \subseteq index.ids
      /\ \A s \in Sessions \ InMemory : Loadable(s) = Nothing

StructInv == TypeOK /\ WritesInOrder /\ Given /\ MemoryMatchesFiles
                /\ JobIsSaved /\ IndexMatchesMemory

\* The old single file is read before anything else has happened.
LegacyIsFirst ==
  legacyFile => /\ ~Running /\ deleted = {}
                /\ \A s \in Legacy : saved[s] = Nothing

\* No complete file is older than what was stored, and memory is not either.
NothingOlder ==
  /\ \A s \in torn : file[s] = Nothing
  /\ \A s \in Sessions \ torn : open # s => file[s] >= saved[s]
  /\ Running => \A s \in InMemory : mem[s] >= saved[s]
  /\ Running => \A s \in Sessions \ torn : saved[s] # Nothing => s \in InMemory

\* An index that can be read misses a stored session only if its file is lost.
IndexCoversStored ==
  index.valid => \A s \in Sessions \ index.ids :
      saved[s] # Nothing => s \in torn /\ mem[s] = Nothing

KeptInv == StructInv /\ LegacyIsFirst /\ NothingOlder /\ IndexCoversStored

\* A deleted session is neither on disk nor in memory.
Gone == \A s \in deleted : file[s] = Nothing /\ mem[s] = Nothing

GoneInv == StructInv /\ LegacyIsFirst /\ Gone

-----------------------------------------------------------------------------
(* Steps: what each action keeps *)

\* Types: what is written to a file is a version.
LEMMA TypeStep ==
  ASSUME TypeOK, WritesInOrder, Next
  PROVE  TypeOK'
<1>. USE StoreAssumption DEF TypeOK, WritesInOrder, Loadable, Running, InMemory, Version, Nothing, disk
<1>1. ASSUME Start PROVE TypeOK'
  BY <1>1 DEF Start
<1>2. ASSUME Load PROVE TypeOK'
  BY <1>2 DEF Load, LegacyMoved
<1>3. ASSUME LoadFails PROVE TypeOK'
  BY <1>3 DEF LoadFails, LegacyMoved
<1>4. ASSUME NEW s \in Sessions, Create(s) PROVE TypeOK'
  BY <1>4 DEF Create, Store
<1>5. ASSUME NEW s \in Sessions, Change(s) PROVE TypeOK'
  BY <1>5 DEF Change, Store
<1>6. ASSUME NEW s \in Sessions, AddMessage(s) PROVE TypeOK'
  BY <1>6 DEF AddMessage
<1>7. ASSUME NEW s \in Sessions, Delete(s) PROVE TypeOK'
  BY <1>7 DEF Delete, Store
<1>8. ASSUME NEW s \in Sessions, OpenFile(s) PROVE TypeOK'
  BY <1>8 DEF OpenFile
<1>9. ASSUME NEW s \in Sessions, CloseFile(s) PROVE TypeOK'
  BY <1>9 DEF CloseFile, Written
<1>10. ASSUME NEW s \in Sessions, FileFails(s) PROVE TypeOK'
  BY <1>10 DEF FileFails, Cut
<1>11. ASSUME OpenIndex PROVE TypeOK'
  BY <1>11 DEF OpenIndex
<1>12. ASSUME CloseIndex PROVE TypeOK'
  BY <1>12 DEF CloseIndex, Return, NewIndex
<1>13. ASSUME IndexFails PROVE TypeOK'
  BY <1>13 DEF IndexFails, Return
<1>14. ASSUME Crash PROVE TypeOK'
  BY <1>14 DEF Crash, Cut
<1>. QED  BY <1>1, <1>2, <1>3, <1>4, <1>5, <1>6, <1>7, <1>8, <1>9, <1>10, <1>11, <1>12, <1>13, <1>14 DEF Next

\* The writes of an operation come in their order.
LEMMA WritesStep ==
  ASSUME TypeOK, WritesInOrder, Next
  PROVE  WritesInOrder'
<1>. USE StoreAssumption DEF TypeOK, WritesInOrder, Running, InMemory, Version, Nothing, disk
<1>1. ASSUME Start PROVE WritesInOrder'
  BY <1>1 DEF Start
<1>2. ASSUME Load PROVE WritesInOrder'
  BY <1>2 DEF Load, LegacyMoved
<1>3. ASSUME LoadFails PROVE WritesInOrder'
  BY <1>3 DEF LoadFails, LegacyMoved
<1>4. ASSUME NEW s \in Sessions, Create(s) PROVE WritesInOrder'
  BY <1>4 DEF Create, Store
<1>5. ASSUME NEW s \in Sessions, Change(s) PROVE WritesInOrder'
  BY <1>5 DEF Change, Store
<1>6. ASSUME NEW s \in Sessions, AddMessage(s) PROVE WritesInOrder'
  BY <1>6 DEF AddMessage
<1>7. ASSUME NEW s \in Sessions, Delete(s) PROVE WritesInOrder'
  BY <1>7 DEF Delete, Store
<1>8. ASSUME NEW s \in Sessions, OpenFile(s) PROVE WritesInOrder'
  BY <1>8 DEF OpenFile
<1>9. ASSUME NEW s \in Sessions, CloseFile(s) PROVE WritesInOrder'
  BY <1>9 DEF CloseFile, Written
<1>10. ASSUME NEW s \in Sessions, FileFails(s) PROVE WritesInOrder'
  BY <1>10 DEF FileFails, Cut
<1>11. ASSUME OpenIndex PROVE WritesInOrder'
  BY <1>11 DEF OpenIndex
<1>12. ASSUME CloseIndex PROVE WritesInOrder'
  BY <1>12 DEF CloseIndex, Return, NewIndex
<1>13. ASSUME IndexFails PROVE WritesInOrder'
  BY <1>13 DEF IndexFails, Return
<1>14. ASSUME Crash PROVE WritesInOrder'
  BY <1>14 DEF Crash, Cut
<1>. QED  BY <1>1, <1>2, <1>3, <1>4, <1>5, <1>6, <1>7, <1>8, <1>9, <1>10, <1>11, <1>12, <1>13, <1>14 DEF Next

\* Only ids that were given out are ever used.
LEMMA GivenStep ==
  ASSUME TypeOK, WritesInOrder, Given, Next
  PROVE  Given'
<1>. USE StoreAssumption DEF TypeOK, WritesInOrder, Given, Loadable, Running, InMemory, Version, Nothing, disk
<1>1. ASSUME Start PROVE Given'
  BY <1>1 DEF Start
<1>2. ASSUME Load PROVE Given'
  BY <1>2 DEF Load, LegacyMoved
<1>3. ASSUME LoadFails PROVE Given'
  BY <1>3 DEF LoadFails, LegacyMoved
<1>4. ASSUME NEW s \in Sessions, Create(s) PROVE Given'
  BY <1>4 DEF Create, Store
<1>5. ASSUME NEW s \in Sessions, Change(s) PROVE Given'
  BY <1>5 DEF Change, Store
<1>6. ASSUME NEW s \in Sessions, AddMessage(s) PROVE Given'
  BY <1>6 DEF AddMessage
<1>7. ASSUME NEW s \in Sessions, Delete(s) PROVE Given'
  BY <1>7 DEF Delete, Store
<1>8. ASSUME NEW s \in Sessions, OpenFile(s) PROVE Given'
  BY <1>8 DEF OpenFile
<1>9. ASSUME NEW s \in Sessions, CloseFile(s) PROVE Given'
  BY <1>9 DEF CloseFile, Written
<1>10. ASSUME NEW s \in Sessions, FileFails(s) PROVE Given'
  BY <1>10 DEF FileFails, Cut
<1>11. ASSUME OpenIndex PROVE Given'
  BY <1>11 DEF OpenIndex
<1>12. ASSUME CloseIndex PROVE Given'
  BY <1>12 DEF CloseIndex, Return, NewIndex
<1>13. ASSUME IndexFails PROVE Given'
  BY <1>13 DEF IndexFails, Return
<1>14. ASSUME Crash PROVE Given'
  BY <1>14 DEF Crash, Cut
<1>. QED  BY <1>1, <1>2, <1>3, <1>4, <1>5, <1>6, <1>7, <1>8, <1>9, <1>10, <1>11, <1>12, <1>13, <1>14 DEF Next

\* Memory and files stay together.
LEMMA MatchStep ==
  ASSUME TypeOK, WritesInOrder, MemoryMatchesFiles, Next
  PROVE  MemoryMatchesFiles'
<1>. USE StoreAssumption DEF TypeOK, WritesInOrder, MemoryMatchesFiles, Loadable, Running, InMemory, Version, Nothing, disk
<1>1. ASSUME Start PROVE MemoryMatchesFiles'
  BY <1>1 DEF Start
<1>2. ASSUME Load PROVE MemoryMatchesFiles'
  BY <1>2 DEF Load, LegacyMoved
<1>3. ASSUME LoadFails PROVE MemoryMatchesFiles'
  BY <1>3 DEF LoadFails, LegacyMoved
<1>4. ASSUME NEW s \in Sessions, Create(s) PROVE MemoryMatchesFiles'
  BY <1>4 DEF Create, Store
<1>5. ASSUME NEW s \in Sessions, Change(s) PROVE MemoryMatchesFiles'
  BY <1>5 DEF Change, Store
<1>6. ASSUME NEW s \in Sessions, AddMessage(s) PROVE MemoryMatchesFiles'
  BY <1>6 DEF AddMessage
<1>7. ASSUME NEW s \in Sessions, Delete(s) PROVE MemoryMatchesFiles'
  BY <1>7 DEF Delete, Store
<1>8. ASSUME NEW s \in Sessions, OpenFile(s) PROVE MemoryMatchesFiles'
  BY <1>8 DEF OpenFile
<1>9. ASSUME NEW s \in Sessions, CloseFile(s) PROVE MemoryMatchesFiles'
  BY <1>9 DEF CloseFile, Written
<1>10. ASSUME NEW s \in Sessions, FileFails(s) PROVE MemoryMatchesFiles'
  BY <1>10 DEF FileFails, Cut
<1>11. ASSUME OpenIndex PROVE MemoryMatchesFiles'
  BY <1>11 DEF OpenIndex
<1>12. ASSUME CloseIndex PROVE MemoryMatchesFiles'
  BY <1>12 DEF CloseIndex, Return, NewIndex
<1>13. ASSUME IndexFails PROVE MemoryMatchesFiles'
  BY <1>13 DEF IndexFails, Return
<1>14. ASSUME Crash PROVE MemoryMatchesFiles'
  BY <1>14 DEF Crash, Cut
<1>. QED  BY <1>1, <1>2, <1>3, <1>4, <1>5, <1>6, <1>7, <1>8, <1>9, <1>10, <1>11, <1>12, <1>13, <1>14 DEF Next

\* An operation saves what it writes.
LEMMA JobStep ==
  ASSUME TypeOK, WritesInOrder, JobIsSaved, Next
  PROVE  JobIsSaved'
<1>. USE StoreAssumption DEF TypeOK, WritesInOrder, JobIsSaved, Running, InMemory, Version, Nothing, disk
<1>1. ASSUME Start PROVE JobIsSaved'
  BY <1>1 DEF Start
<1>2. ASSUME Load PROVE JobIsSaved'
  BY <1>2 DEF Load, LegacyMoved
<1>3. ASSUME LoadFails PROVE JobIsSaved'
  BY <1>3 DEF LoadFails, LegacyMoved
<1>4. ASSUME NEW s \in Sessions, Create(s) PROVE JobIsSaved'
  BY <1>4 DEF Create, Store
<1>5. ASSUME NEW s \in Sessions, Change(s) PROVE JobIsSaved'
  BY <1>5 DEF Change, Store
<1>6. ASSUME NEW s \in Sessions, AddMessage(s) PROVE JobIsSaved'
  BY <1>6 DEF AddMessage
<1>7. ASSUME NEW s \in Sessions, Delete(s) PROVE JobIsSaved'
  BY <1>7 DEF Delete, Store
<1>8. ASSUME NEW s \in Sessions, OpenFile(s) PROVE JobIsSaved'
  BY <1>8 DEF OpenFile
<1>9. ASSUME NEW s \in Sessions, CloseFile(s) PROVE JobIsSaved'
  BY <1>9 DEF CloseFile, Written
<1>10. ASSUME NEW s \in Sessions, FileFails(s) PROVE JobIsSaved'
  BY <1>10 DEF FileFails, Cut
<1>11. ASSUME OpenIndex PROVE JobIsSaved'
  BY <1>11 DEF OpenIndex
<1>12. ASSUME CloseIndex PROVE JobIsSaved'
  BY <1>12 DEF CloseIndex, Return, NewIndex
<1>13. ASSUME IndexFails PROVE JobIsSaved'
  BY <1>13 DEF IndexFails, Return
<1>14. ASSUME Crash PROVE JobIsSaved'
  BY <1>14 DEF Crash, Cut
<1>. QED  BY <1>1, <1>2, <1>3, <1>4, <1>5, <1>6, <1>7, <1>8, <1>9, <1>10, <1>11, <1>12, <1>13, <1>14 DEF Next

\* The index follows memory.
LEMMA IndexStep ==
  ASSUME TypeOK, WritesInOrder, Given, IndexMatchesMemory, Next
  PROVE  IndexMatchesMemory'
<1>. USE StoreAssumption DEF TypeOK, WritesInOrder, Given, IndexMatchesMemory, Running, InMemory, Loadable, Version, Nothing, disk
<1>1. ASSUME Start PROVE IndexMatchesMemory'
  BY <1>1 DEF Start
<1>2. ASSUME Load PROVE IndexMatchesMemory'
  BY <1>2 DEF Load, LegacyMoved
<1>3. ASSUME LoadFails PROVE IndexMatchesMemory'
  BY <1>3 DEF LoadFails, LegacyMoved
<1>4. ASSUME NEW s \in Sessions, Create(s) PROVE IndexMatchesMemory'
  BY <1>4 DEF Create, Store
<1>5. ASSUME NEW s \in Sessions, Change(s) PROVE IndexMatchesMemory'
  BY <1>5 DEF Change, Store
<1>6. ASSUME NEW s \in Sessions, AddMessage(s) PROVE IndexMatchesMemory'
  BY <1>6 DEF AddMessage
<1>7. ASSUME NEW s \in Sessions, Delete(s) PROVE IndexMatchesMemory'
  BY <1>7 DEF Delete, Store
<1>8. ASSUME NEW s \in Sessions, OpenFile(s) PROVE IndexMatchesMemory'
  BY <1>8 DEF OpenFile
<1>9. ASSUME NEW s \in Sessions, CloseFile(s) PROVE IndexMatchesMemory'
  BY <1>9 DEF CloseFile, Written
<1>10. ASSUME NEW s \in Sessions, FileFails(s) PROVE IndexMatchesMemory'
  BY <1>10 DEF FileFails, Cut
<1>11. ASSUME OpenIndex PROVE IndexMatchesMemory'
  BY <1>11 DEF OpenIndex
<1>12. ASSUME CloseIndex PROVE IndexMatchesMemory'
  BY <1>12 DEF CloseIndex, Return, NewIndex
<1>13. ASSUME IndexFails PROVE IndexMatchesMemory'
  BY <1>13 DEF IndexFails, Return
<1>14. ASSUME Crash PROVE IndexMatchesMemory'
  BY <1>14 DEF Crash, Cut
<1>. QED  BY <1>1, <1>2, <1>3, <1>4, <1>5, <1>6, <1>7, <1>8, <1>9, <1>10, <1>11, <1>12, <1>13, <1>14 DEF Next

\* The old single file is read first.
LEMMA LegacyStep ==
  ASSUME ~RenameMayFail, TypeOK, WritesInOrder, LegacyIsFirst, Next
  PROVE  LegacyIsFirst'
<1>. USE StoreAssumption DEF TypeOK, WritesInOrder, LegacyIsFirst, Running, InMemory, Version, Nothing, disk
<1>1. ASSUME Start PROVE LegacyIsFirst'
  BY <1>1 DEF Start
<1>2. ASSUME Load PROVE LegacyIsFirst'
  BY <1>2 DEF Load, LegacyMoved
<1>3. ASSUME LoadFails PROVE LegacyIsFirst'
  BY <1>3 DEF LoadFails, LegacyMoved
<1>4. ASSUME NEW s \in Sessions, Create(s) PROVE LegacyIsFirst'
  BY <1>4 DEF Create, Store
<1>5. ASSUME NEW s \in Sessions, Change(s) PROVE LegacyIsFirst'
  BY <1>5 DEF Change, Store
<1>6. ASSUME NEW s \in Sessions, AddMessage(s) PROVE LegacyIsFirst'
  BY <1>6 DEF AddMessage
<1>7. ASSUME NEW s \in Sessions, Delete(s) PROVE LegacyIsFirst'
  BY <1>7 DEF Delete, Store
<1>8. ASSUME NEW s \in Sessions, OpenFile(s) PROVE LegacyIsFirst'
  BY <1>8 DEF OpenFile
<1>9. ASSUME NEW s \in Sessions, CloseFile(s) PROVE LegacyIsFirst'
  BY <1>9 DEF CloseFile, Written
<1>10. ASSUME NEW s \in Sessions, FileFails(s) PROVE LegacyIsFirst'
  BY <1>10 DEF FileFails, Cut
<1>11. ASSUME OpenIndex PROVE LegacyIsFirst'
  BY <1>11 DEF OpenIndex
<1>12. ASSUME CloseIndex PROVE LegacyIsFirst'
  BY <1>12 DEF CloseIndex, Return, NewIndex
<1>13. ASSUME IndexFails PROVE LegacyIsFirst'
  BY <1>13 DEF IndexFails, Return
<1>14. ASSUME Crash PROVE LegacyIsFirst'
  BY <1>14 DEF Crash, Cut
<1>. QED  BY <1>1, <1>2, <1>3, <1>4, <1>5, <1>6, <1>7, <1>8, <1>9, <1>10, <1>11, <1>12, <1>13, <1>14 DEF Next

\* Nothing complete is older than what was stored.
LEMMA OlderStep ==
  ASSUME ~RenameMayFail, TypeOK, WritesInOrder, Given, MemoryMatchesFiles, JobIsSaved, LegacyIsFirst, NothingOlder, IndexCoversStored, Next
  PROVE  NothingOlder'
<1>. USE StoreAssumption DEF TypeOK, WritesInOrder, Given, MemoryMatchesFiles, JobIsSaved, LegacyIsFirst, NothingOlder, IndexCoversStored, Loadable, Running, InMemory, Version, Nothing, disk
<1>1. ASSUME Start PROVE NothingOlder'
  BY <1>1 DEF Start
<1>2. ASSUME Load PROVE NothingOlder'
  BY <1>2 DEF Load, LegacyMoved
<1>3. ASSUME LoadFails PROVE NothingOlder'
  BY <1>3 DEF LoadFails, LegacyMoved
<1>4. ASSUME NEW s \in Sessions, Create(s) PROVE NothingOlder'
  BY <1>4 DEF Create, Store
<1>5. ASSUME NEW s \in Sessions, Change(s) PROVE NothingOlder'
  BY <1>5 DEF Change, Store
<1>6. ASSUME NEW s \in Sessions, AddMessage(s) PROVE NothingOlder'
  BY <1>6 DEF AddMessage
<1>7. ASSUME NEW s \in Sessions, Delete(s) PROVE NothingOlder'
  BY <1>7 DEF Delete, Store
<1>8. ASSUME NEW s \in Sessions, OpenFile(s) PROVE NothingOlder'
  BY <1>8 DEF OpenFile
<1>9. ASSUME NEW s \in Sessions, CloseFile(s) PROVE NothingOlder'
  BY <1>9 DEF CloseFile, Written
<1>10. ASSUME NEW s \in Sessions, FileFails(s) PROVE NothingOlder'
  BY <1>10 DEF FileFails, Cut
<1>11. ASSUME OpenIndex PROVE NothingOlder'
  BY <1>11 DEF OpenIndex
<1>12. ASSUME CloseIndex PROVE NothingOlder'
  BY <1>12 DEF CloseIndex, Return, NewIndex
<1>13. ASSUME IndexFails PROVE NothingOlder'
  BY <1>13 DEF IndexFails, Return
<1>14. ASSUME Crash PROVE NothingOlder'
  BY <1>14 DEF Crash, Cut
<1>. QED  BY <1>1, <1>2, <1>3, <1>4, <1>5, <1>6, <1>7, <1>8, <1>9, <1>10, <1>11, <1>12, <1>13, <1>14 DEF Next

\* The index covers what was stored.
LEMMA CoverStep ==
  ASSUME ~RenameMayFail, TypeOK, WritesInOrder, Given, MemoryMatchesFiles, JobIsSaved, LegacyIsFirst, NothingOlder, IndexCoversStored, Next
  PROVE  IndexCoversStored'
<1>. USE StoreAssumption DEF TypeOK, WritesInOrder, Given, MemoryMatchesFiles, JobIsSaved, LegacyIsFirst, NothingOlder, IndexCoversStored, Loadable, Running, InMemory, Version, Nothing, disk
<1>1. ASSUME Start PROVE IndexCoversStored'
  BY <1>1 DEF Start
<1>2. ASSUME Load PROVE IndexCoversStored'
  BY <1>2 DEF Load, LegacyMoved
<1>3. ASSUME LoadFails PROVE IndexCoversStored'
  BY <1>3 DEF LoadFails, LegacyMoved
<1>4. ASSUME NEW s \in Sessions, Create(s) PROVE IndexCoversStored'
  BY <1>4 DEF Create, Store
<1>5. ASSUME NEW s \in Sessions, Change(s) PROVE IndexCoversStored'
  BY <1>5 DEF Change, Store
<1>6. ASSUME NEW s \in Sessions, AddMessage(s) PROVE IndexCoversStored'
  BY <1>6 DEF AddMessage
<1>7. ASSUME NEW s \in Sessions, Delete(s) PROVE IndexCoversStored'
  BY <1>7 DEF Delete, Store
<1>8. ASSUME NEW s \in Sessions, OpenFile(s) PROVE IndexCoversStored'
  BY <1>8 DEF OpenFile
<1>9. ASSUME NEW s \in Sessions, CloseFile(s) PROVE IndexCoversStored'
  BY <1>9 DEF CloseFile, Written
<1>10. ASSUME NEW s \in Sessions, FileFails(s) PROVE IndexCoversStored'
  BY <1>10 DEF FileFails, Cut
<1>11. ASSUME OpenIndex PROVE IndexCoversStored'
  BY <1>11 DEF OpenIndex
<1>12. ASSUME CloseIndex PROVE IndexCoversStored'
  BY <1>12 DEF CloseIndex, Return, NewIndex
<1>13. ASSUME IndexFails PROVE IndexCoversStored'
  BY <1>13 DEF IndexFails, Return
<1>14. ASSUME Crash PROVE IndexCoversStored'
  BY <1>14 DEF Crash, Cut
<1>. QED  BY <1>1, <1>2, <1>3, <1>4, <1>5, <1>6, <1>7, <1>8, <1>9, <1>10, <1>11, <1>12, <1>13, <1>14 DEF Next

\* What was deleted stays away.
LEMMA GoneStep ==
  ASSUME ~RenameMayFail, ~UnlinkMayFail, TypeOK, WritesInOrder, Given, LegacyIsFirst, Gone, Next
  PROVE  Gone'
<1>. USE StoreAssumption DEF TypeOK, WritesInOrder, Given, LegacyIsFirst, Gone, Loadable, Running, InMemory, Version, Nothing, disk
<1>1. ASSUME Start PROVE Gone'
  BY <1>1 DEF Start
<1>2. ASSUME Load PROVE Gone'
  BY <1>2 DEF Load, LegacyMoved
<1>3. ASSUME LoadFails PROVE Gone'
  BY <1>3 DEF LoadFails, LegacyMoved
<1>4. ASSUME NEW s \in Sessions, Create(s) PROVE Gone'
  BY <1>4 DEF Create, Store
<1>5. ASSUME NEW s \in Sessions, Change(s) PROVE Gone'
  BY <1>5 DEF Change, Store
<1>6. ASSUME NEW s \in Sessions, AddMessage(s) PROVE Gone'
  BY <1>6 DEF AddMessage
<1>7. ASSUME NEW s \in Sessions, Delete(s) PROVE Gone'
  BY <1>7 DEF Delete, Store
<1>8. ASSUME NEW s \in Sessions, OpenFile(s) PROVE Gone'
  BY <1>8 DEF OpenFile
<1>9. ASSUME NEW s \in Sessions, CloseFile(s) PROVE Gone'
  BY <1>9 DEF CloseFile, Written
<1>10. ASSUME NEW s \in Sessions, FileFails(s) PROVE Gone'
  BY <1>10 DEF FileFails, Cut
<1>11. ASSUME OpenIndex PROVE Gone'
  BY <1>11 DEF OpenIndex
<1>12. ASSUME CloseIndex PROVE Gone'
  BY <1>12 DEF CloseIndex, Return, NewIndex
<1>13. ASSUME IndexFails PROVE Gone'
  BY <1>13 DEF IndexFails, Return
<1>14. ASSUME Crash PROVE Gone'
  BY <1>14 DEF Crash, Cut
<1>. QED  BY <1>1, <1>2, <1>3, <1>4, <1>5, <1>6, <1>7, <1>8, <1>9, <1>10, <1>11, <1>12, <1>13, <1>14 DEF Next

-----------------------------------------------------------------------------
(* The initial states, and steps that change nothing *)

LEMMA InitStruct == Init => StructInv
<1>. SUFFICES ASSUME Init PROVE StructInv  OBVIOUS
<1>. USE StoreAssumption
<1>1. PICK old \in SUBSET (Sessions \ Legacy) :
        /\ file = [s \in Sessions |-> IF s \in old THEN 0 ELSE Nothing]
        /\ index = [valid |-> old # {}, ids |-> old]
        /\ saved = file
        /\ known = old \cup Legacy
  BY DEF Init
<1>2. TypeOK
  <2>1. file \in [Sessions -> Version] /\ mem \in [Sessions -> Version]
    BY <1>1 DEF Init, Version
  <2>2. index \in [valid : BOOLEAN, ids : SUBSET Sessions]
    BY <1>1
  <2>3. legacyFile \in BOOLEAN
    BY Zenon DEF Init
  <2>4. pc = "down" /\ todo = {} /\ open = NoFile /\ job = {} /\ known \in SUBSET Sessions
        /\ split = {} /\ unsaved = {} /\ torn = {} /\ deleted = {}
    BY <1>1 DEF Init
  <2>. QED  BY <1>1, <2>1, <2>2, <2>3, <2>4 DEF TypeOK
<1>3. InMemory = {}
  BY DEF Init, InMemory
<1>4. WritesInOrder /\ JobIsSaved /\ MemoryMatchesFiles /\ IndexMatchesMemory
  BY <1>3 DEF Init, WritesInOrder, JobIsSaved, MemoryMatchesFiles, IndexMatchesMemory, Running
<1>5. Given
  BY <1>1 DEF Init, Given, Nothing
<1>. QED  BY <1>2, <1>4, <1>5 DEF StructInv

LEMMA InitKept == Init => LegacyIsFirst /\ NothingOlder /\ IndexCoversStored /\ Gone
<1>. SUFFICES ASSUME Init PROVE LegacyIsFirst /\ NothingOlder /\ IndexCoversStored /\ Gone
  OBVIOUS
<1>. USE StoreAssumption
<1>1. PICK old \in SUBSET (Sessions \ Legacy) :
        /\ file = [s \in Sessions |-> IF s \in old THEN 0 ELSE Nothing]
        /\ index = [valid |-> old # {}, ids |-> old]
        /\ saved = file
  BY DEF Init
<1>2. ~Running
  BY DEF Init, Running
<1>3. LegacyIsFirst /\ Gone
  BY <1>1, <1>2 DEF Init, LegacyIsFirst, Gone
<1>4. torn = {} /\ (\A s \in Sessions : file[s] \in Int /\ saved[s] = file[s])
  BY <1>1 DEF Init, Nothing
<1>5. NothingOlder
  BY <1>2, <1>4 DEF NothingOlder
<1>6. \A s \in Sessions : s \in old \/ saved[s] = Nothing
  BY <1>1
<1>7. IndexCoversStored
  BY <1>1, <1>6 DEF IndexCoversStored
<1>. QED  BY <1>3, <1>5, <1>7

LEMMA Stutter ==
  ASSUME UNCHANGED vars
  PROVE  /\ StructInv => StructInv'
         /\ LegacyIsFirst => LegacyIsFirst'
         /\ NothingOlder => NothingOlder'
         /\ IndexCoversStored => IndexCoversStored'
         /\ Gone => Gone'
<1>. USE DEF vars
<1>1. StructInv => StructInv'
  BY DEF StructInv, TypeOK, WritesInOrder, Given, MemoryMatchesFiles, JobIsSaved,
         IndexMatchesMemory, Running, InMemory, Loadable
<1>2. /\ LegacyIsFirst => LegacyIsFirst'
      /\ NothingOlder => NothingOlder'
      /\ IndexCoversStored => IndexCoversStored'
      /\ Gone => Gone'
  BY DEF LegacyIsFirst, NothingOlder, IndexCoversStored, Gone, Running, InMemory
<1>. QED  BY <1>1, <1>2

-----------------------------------------------------------------------------
(* The theorems *)

LEMMA StructStep == StructInv /\ [Next]_vars => StructInv'
<1>. SUFFICES ASSUME StructInv, Next PROVE StructInv'
  BY Stutter
<1>. QED
  BY TypeStep, WritesStep, GivenStep, MatchStep, JobStep, IndexStep DEF StructInv

\* Memory, files and index keep together, whatever fails and whenever it crashes.
THEOREM StructuralInvariant == Spec => []StructInv
  BY InitStruct, StructStep, PTL DEF Spec

\* Type correctness: every file and every session in memory is a version or nothing.
THEOREM TypeCorrect == Spec => []TypeOK
<1>1. StructInv => TypeOK
  BY DEF StructInv
<1>. QED  BY <1>1, StructuralInvariant, PTL

\* Between operations a restart would show what memory shows, but for what was
\* not saved or failed to be written (save, create and delete with _load).
THEOREM MemoryIsOnDisk == Spec => []IdleMatchesDisk
<1>1. StructInv => IdleMatchesDisk
  <2>. SUFFICES ASSUME StructInv, pc = "idle", index.valid,
                       NEW s \in Sessions \ (torn \cup unsaved)
                PROVE  Loadable(s) = mem[s]
    BY DEF IdleMatchesDisk
  <2>1. CASE s \in InMemory
    <3>1. file[s] = mem[s]
      BY <2>1 DEF StructInv, WritesInOrder, MemoryMatchesFiles, Running
    <3>2. s \in index.ids
      BY <2>1 DEF StructInv, IndexMatchesMemory
    <3>. QED  BY <3>1, <3>2 DEF Loadable
  <2>2. CASE s \notin InMemory
    BY <2>2 DEF StructInv, IndexMatchesMemory, InMemory
  <2>. QED  BY <2>1, <2>2
<1>. QED  BY <1>1, StructuralInvariant, PTL

\* If the old single file can be moved away, then whenever the process dies, only
\* the session whose file is being written can be older than what was stored.
THEOREM OnlyOpenFileIsAtRisk ==
  ASSUME ~RenameMayFail
  PROVE  Spec => []OnlyOpenFileAtRisk
<1>1. Init => KeptInv
  BY InitStruct, InitKept DEF KeptInv
<1>2. KeptInv /\ [Next]_vars => KeptInv'
  <2>1. ASSUME KeptInv, Next PROVE KeptInv'
    <3>1. StructInv'
      BY <2>1, StructStep DEF KeptInv
    <3>2. TypeOK /\ WritesInOrder /\ Given /\ MemoryMatchesFiles /\ JobIsSaved
      BY <2>1 DEF KeptInv, StructInv
    <3>3. LegacyIsFirst /\ NothingOlder /\ IndexCoversStored
      BY <2>1 DEF KeptInv
    <3>4. LegacyIsFirst'
      BY <2>1, <3>2, <3>3, LegacyStep
    <3>5. NothingOlder'
      BY <2>1, <3>2, <3>3, OlderStep
    <3>6. IndexCoversStored'
      BY <2>1, <3>2, <3>3, CoverStep
    <3>. QED  BY <3>1, <3>4, <3>5, <3>6 DEF KeptInv
  <2>2. ASSUME KeptInv, UNCHANGED vars PROVE KeptInv'
    BY <2>2, Stutter DEF KeptInv
  <2>. QED  BY <2>1, <2>2
<1>3. KeptInv => OnlyOpenFileAtRisk
  <2>. SUFFICES ASSUME KeptInv, split = {}, NEW s \in Sessions \ torn, open # s
                PROVE  Loadable(s) >= saved[s]
    BY DEF OnlyOpenFileAtRisk
  <2>1. CASE index.valid /\ s \notin index.ids
    <3>1. saved[s] = Nothing
      BY <2>1 DEF KeptInv, IndexCoversStored
    <3>. QED  BY <2>1, <3>1 DEF Loadable, Nothing
  <2>2. CASE ~(index.valid /\ s \notin index.ids)
    BY <2>2 DEF KeptInv, NothingOlder, Loadable
  <2>. QED  BY <2>1, <2>2
<1>. QED  BY <1>1, <1>2, <1>3, PTL DEF Spec

\* If files can be removed and moved, a deleted session never comes back.
THEOREM DeletedIsGone ==
  ASSUME ~RenameMayFail, ~UnlinkMayFail
  PROVE  Spec => []DeletedStaysDeleted
<1>1. Init => GoneInv
  BY InitStruct, InitKept DEF GoneInv
<1>2. GoneInv /\ [Next]_vars => GoneInv'
  <2>1. ASSUME GoneInv, Next PROVE GoneInv'
    <3>1. StructInv'
      BY <2>1, StructStep DEF GoneInv
    <3>2. TypeOK /\ WritesInOrder /\ Given /\ LegacyIsFirst /\ Gone
      BY <2>1 DEF GoneInv, StructInv
    <3>3. LegacyIsFirst'
      BY <2>1, <3>2, LegacyStep
    <3>4. Gone'
      BY <2>1, <3>2, GoneStep
    <3>. QED  BY <3>1, <3>3, <3>4 DEF GoneInv
  <2>2. ASSUME GoneInv, UNCHANGED vars PROVE GoneInv'
    BY <2>2, Stutter DEF GoneInv
  <2>. QED  BY <2>1, <2>2
<1>3. GoneInv => DeletedStaysDeleted
  BY DEF GoneInv, Gone, DeletedStaysDeleted, Loadable
<1>. QED  BY <1>1, <1>2, <1>3, PTL DEF Spec
===============================================================================
