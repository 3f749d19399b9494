---------------------------- MODULE PagedTables ----------------------------
(***************************************************************************)
(* CREATE PAGED TABLE: src/storage/paged_table.hpp over the page cache of  *)
(* page_manager.hpp and one file per table.  A statement runs alone; what  *)
(* can come between its steps is the end of the process, which keeps the   *)
(* writes made so far.  The contents of a page are its number and rows;    *)
(* nextPageId, which nothing reads, and the checksum, which whole writes   *)
(* keep right, are left out.                                               *)
(*                                                                         *)
(* No call on a file is checked: one kind of call may fail throughout a    *)
(* statement, which goes on and is answered.                               *)
(***************************************************************************)
EXTENDS Selections

CONSTANTS Paged,      \* the paged tables
          RowSizes,   \* sizes of rows
          Capacity,   \* DATA_SIZE
          MaxPages,   \* maxPages_
          MaxIssued,  \* bound: rows inserted
          MaxFaulty   \* bound: the same before and after a call fails

VARIABLES file,      \* table -> its pages on disk
          cache,     \* cache_, the least recently used page first
          issued,    \* the number of rows inserted
          answered,  \* history: table -> the rows whose INSERT was answered and that fit a page
          io         \* history: "failed" once a call on a file has failed

vars == <<file, cache, issued, answered, io>>

Row == [n : 1..MaxIssued, size : RowSizes]
Page == [id : Nat, rows : Seq(Row)]
Entry == [tbl : Paged, id : Nat, page : Page, dirty : BOOLEAN]

\* What can fail in a statement: getPageCount's open, readPage's open, a write over a page, a write that
\* makes the file longer.
Fault == {"none", "count", "read", "write", "grow"}

\* The shape of the state; no page is cached twice.
TypeOK ==
  /\ file \in [Paged -> Seq(Page)]
  /\ cache \in Seq(Entry) /\ Len(cache) <= MaxPages
  /\ \A i, j \in DOMAIN cache : cache[i].tbl = cache[j].tbl /\ cache[i].id = cache[j].id => i = j
  /\ issued \in 0..MaxIssued /\ answered \in [Paged -> Seq(Row)] /\ io \in {"sound", "failed"}

Init ==
  /\ file = [t \in Paged |-> <<>>] /\ cache = <<>>
  /\ issued = 0 /\ answered = [t \in Paged |-> <<>>] /\ io = "sound"
-----------------------------------------------------------------------------
\* What a statement works on: the files, the cache, whether the process lives, what fails.
Memory(x) == [file |-> file, cache |-> cache, up |-> TRUE, fails |-> x]
Died(m) == [m EXCEPT !.cache = <<>>, !.up = FALSE]
\* The outcomes of F after the outcomes ms of what came before it.
Then(ms, F(_)) == UNION {IF m.up THEN F(m) ELSE {m} : m \in ms}

\* getPageCount, by the length of the file.
PageCount(m, t) == IF m.fails = "count" THEN 0 ELSE Len(m.file[t])

Is(e, t, id) == e.tbl = t /\ e.id = id
Written(f, e) == [f EXCEPT ![e.tbl][e.id + 1] = e.page]

\* A page can be written to its place, unless writes fail or the file did not grow to it.
Lands(m, e) == m.fails # "write" /\ e.id < Len(m.file[e.tbl])

\* makeRoom: the page used longest ago goes, to the file when it is dirty.
MakeRoom(m) ==
  IF Len(m.cache) < MaxPages THEN m
  ELSE LET oldest == Head(m.cache)
       IN  [m EXCEPT !.cache = Tail(@),
                     !.file = IF oldest.dirty /\ Lands(m, oldest) THEN Written(@, oldest) ELSE @]

\* The entry for page id of t, as the one used last.
Put(m, t, id, pg, dirty) ==
  [m EXCEPT !.cache = Append(Picked(@, {i \in DOMAIN @ : ~Is(@[i], t, id)}),
                             [tbl |-> t, id |-> id, page |-> pg, dirty |-> dirty])]

InCache(m, t, id) == \E i \in DOMAIN m.cache : Is(m.cache[i], t, id)
Cached(m, t, id) == m.cache[CHOOSE i \in DOMAIN m.cache : Is(m.cache[i], t, id)]

\* A page as init makes it.
NewPage(id) == [id |-> id, rows |-> <<>>]

\* The page that readPage returns: a new one when the file cannot be opened.
View(m, t, id) ==
  IF InCache(m, t, id) THEN Cached(m, t, id).page
  ELSE IF m.fails = "read" THEN NewPage(id) ELSE m.file[t][id + 1]

\* readPage holds a reference to the table's part of the cache while it makes room.
\* Evicting the only cached page of that table ends its lifetime: the new entry is then
\* lost, or kept by luck, or the process dies.
Dangling(m, t) ==
  Len(m.cache) >= MaxPages /\ {i \in DOMAIN m.cache : m.cache[i].tbl = t} = {1}

ReadPage(m, t, id) ==
  IF InCache(m, t, id)
  THEN {Put(m, t, id, Cached(m, t, id).page, Cached(m, t, id).dirty)}
  ELSE LET room == MakeRoom(m)
           read == Put(room, t, id, View(m, t, id), FALSE)
       IN  IF Dangling(m, t) THEN {read, room, Died(room)} ELSE {read}

\* writePage goes by the number inside the page.
WritePage(m, t, pg) == Put(MakeRoom(m), t, pg.id, pg, TRUE)

\* allocatePage: the file grows by a page of zeros, whose number is 0; the page itself is
\* in the cache.
Grown(m, t) == IF m.fails = "grow" THEN m ELSE [m EXCEPT !.file[t] = Append(@, NewPage(0))]
AllocatePage(m, t) ==
  LET id == PageCount(m, t)
  IN  {Died(Grown(m, t)), Put(MakeRoom(Grown(m, t)), t, id, NewPage(id), TRUE)}

\* Mutant: only the page that was written last is flushed.
FlushDirtyPages_Newest(m, t) ==
  {[m EXCEPT !.file = Written(@, m.cache[Len(m.cache)]),
             !.cache = [i \in DOMAIN @ |-> IF i = Len(@) THEN [@[i] EXCEPT !.dirty = FALSE] ELSE @[i]]]}
\* flushDirtyPages, in any order; the process may die on the way.  A page counts as written
\* also when it was not.
FlushDirtyPages(m, t) ==
  LET dirty == {i \in DOMAIN m.cache : m.cache[i].tbl = t /\ m.cache[i].dirty}
      With(es) ==
        [m EXCEPT !.file[t] = [k \in DOMAIN @ |->
           IF m.fails # "write" /\ \E i \in es : m.cache[i].id + 1 = k THEN View(m, t, k - 1) ELSE @[k]]]
  IN  {Died(With(es)) : es \in SUBSET dirty} \cup
      {[With(dirty) EXCEPT !.cache = [i \in DOMAIN @ |->
          IF @[i].tbl = t THEN [@[i] EXCEPT !.dirty = FALSE] ELSE @[i]]]}
-----------------------------------------------------------------------------
Fill(pg) ==
  LET writePos[n \in 0 .. Len(pg.rows)] == IF n = 0 THEN 0 ELSE writePos[n - 1] + pg.rows[n].size
  IN  writePos[Len(pg.rows)]

\* addRow; insertRow ignores that a row is too large for a new page.
Fits(pg, row) == Fill(pg) + row.size <= Capacity
AddRow(pg, row) == IF Fits(pg, row) THEN [pg EXCEPT !.rows = Append(@, row)] ELSE pg

\* The last page takes the row, or a new one that follows it.
InsertRow(m, t, row) ==
  LET n     == PageCount(m, t)
      last  == View(m, t, n - 1)
      fresh == AddRow(NewPage(n), row)
  IN  IF n = 0
      THEN Then(AllocatePage(m, t), LAMBDA x : FlushDirtyPages(WritePage(x, t, fresh), t))
      ELSE Then(ReadPage(m, t, n - 1),
                LAMBDA r :
                  IF Fits(last, row)
                  THEN FlushDirtyPages(WritePage(r, t, AddRow(last, row)), t)
                  ELSE Then(AllocatePage(r, t),
                            LAMBDA x : FlushDirtyPages(
                              WritePage(WritePage(x, t, last), t, fresh), t)))

\* What may fail now.
Faults == IF issued <= MaxFaulty THEN Fault ELSE {"none"}

\* The statement is over.
Ends(m, x) == file' = m.file /\ cache' = m.cache /\ io' = IF x = "none" THEN io ELSE "failed"

\* INSERT of one row; one of several is a sequence of these.
Insert(t, size) ==
  LET row == [n |-> issued + 1, size |-> size]
  IN  /\ issued < MaxIssued /\ (io = "failed" => issued <= MaxFaulty)
      /\ issued' = issued + 1
      /\ \E x \in Faults : \E m \in InsertRow(Memory(x), t, row) :
           /\ Ends(m, x)
           /\ answered' = IF m.up /\ size <= Capacity
                          THEN [answered EXCEPT ![t] = Append(@, row)] ELSE answered

\* SELECT: scanAll reads the pages one after the other through the cache.
Scans(m, t) ==
  LET reads[n \in 0 .. PageCount(m, t)] ==
        IF n = 0 THEN {m} ELSE Then(reads[n - 1], LAMBDA r : ReadPage(r, t, n - 1))
  IN  reads[PageCount(m, t)]
Select(t) ==
  /\ \E x \in Faults : \E m \in Scans(Memory(x), t) : Ends(m, x)
  /\ UNCHANGED <<issued, answered>>

\* The process ends and starts again.
Restart ==
  /\ cache # <<>> /\ cache' = <<>>
  /\ UNCHANGED <<file, issued, answered, io>>

Next ==
  \/ \E t \in Paged : Select(t) \/ \E s \in RowSizes : Insert(t, s)
  \/ Restart

Spec == Init /\ [][Next]_vars
-----------------------------------------------------------------------------
\* What a SELECT of t answers: the row at each position of each page, in their order.
Places(t) == UNION {{i} \X DOMAIN View(Memory("none"), t, i - 1).rows : i \in DOMAIN file[t]}
RowAt(t, p) == View(Memory("none"), t, p[1] - 1).rows[p[2]]
Before(p, q) == p[1] < q[1] \/ (p[1] = q[1] /\ p[2] < q[2])

\* No process died between growing the file of t and flushing the new page.
Numbered(t) == \A i \in DOMAIN file[t] : file[t][i].id = i - 1

\* As long as no call on a file has failed, the rows whose INSERT was answered are in the
\* table, and the table has its rows once and in the order of the INSERTs, whatever was
\* evicted, read through a cache of other tables or interrupted, and also when the process
\* starts again, for nothing stays dirty after a statement.  Three things are excepted, since
\* the code has nothing against them: the failed call, which nothing reports; a row too large
\* for a page, which is answered and not stored; and a page of zeros left by a crash, which
\* carries the number of page 0, so that the next INSERT replaces that one.
PagedRowsAreKept ==
  io = "sound" =>
    /\ \A t \in Paged : Numbered(t) =>
         /\ \A k \in DOMAIN answered[t] : \E p \in Places(t) : RowAt(t, p) = answered[t][k]
         /\ \A p, q \in Places(t) : Before(p, q) => RowAt(t, p).n < RowAt(t, q).n
    /\ \A i \in DOMAIN cache : ~cache[i].dirty
=============================================================================
