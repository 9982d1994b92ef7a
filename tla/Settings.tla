------------------------------ MODULE Settings ------------------------------
(***************************************************************************)
(* The generic settings (httpapi/settings.go): rows with a version, and a    *)
(* history with one row per version.  A request changes several settings in  *)
(* one transaction (READ COMMITTED); it reads each row without a lock, then  *)
(* writes it with the next version, which locks the row until the end.       *)
(* UNIQUE (setting_key, version) of the history is what notices that the row *)
(* was changed in between.  The form for mail (httpapi/mail.go) writes rows of *)
(* the same table with a higher version and no history, so what it saves is  *)
(* not noticed.                                                              *)
(***************************************************************************)
EXTENDS Naturals, Sequences, FiniteSets
CONSTANTS
  Setting,
  MailSetting,  \* those the form for mail writes too
  Requester,
  Content,      \* values a setting can have
  Blank,        \* no value
  MaxChanges    \* bound: versions of a setting
VARIABLES
  stored,       \* the committed row of each setting
  history,      \* the committed history of each setting, by version
  request,      \* what each requester is doing
  rowLock,      \* who holds the lock on each row
  forked        \* history: settings of which a save of the form was overwritten unread

settingVars == <<stored, history, request, rowLock, forked>>

Mode == {"immediate", "restart"}
\* The row of a setting; nothing reads the value that waits for a restart.
NoRow == [value |-> Blank, version |-> 0]
Rows == [value : Content \cup {Blank}, version : 0 .. MaxChanges]
Item == [setting : Setting, content : Content, mode : Mode]
\* A history row as a request writes it, and once it is committed, with the value
\* that was in force when it was replaced.
Past == [before : Content \cup {Blank}, after : Content \cup {Blank}]
HistoryRow == [before : Content \cup {Blank}, after : Content \cup {Blank},
               over : Content \cup {Blank}]
Unlogged == [before |-> Blank, after |-> Blank, over |-> Blank]
IsLogged(k, version) == history[k][version] # Unlogged

\* The row a request has read, whether the form saved it since then, and what it has
\* written, uncommitted: rows, history rows, and which of them the form had saved.
NoWrites == [k \in {} |-> NoRow]
Free == [step |-> "rest", items |-> <<>>, read |-> NoRow, overtaken |-> FALSE,
         wrote |-> NoWrites, logged |-> NoWrites, blind |-> {}]

\* What a request still holds: the versions of its history rows are those of the
\* rows it wrote.
TypeOK ==
  /\ stored \in [Setting -> Rows]
  /\ history \in [Setting -> [1 .. MaxChanges -> HistoryRow]]
  /\ \A r \in Requester :
       /\ request[r].step \in {"rest", "read", "write"}
       /\ request[r].items \in Seq(Item) /\ Len(request[r].items) <= 2
       /\ request[r].read \in Rows /\ request[r].overtaken \in BOOLEAN
       /\ request[r].blind \subseteq Setting
       /\ DOMAIN request[r].wrote = DOMAIN request[r].logged
       /\ \A k \in DOMAIN request[r].wrote :
            k \in Setting /\ request[r].wrote[k] \in Rows /\ request[r].logged[k] \in Past
  /\ rowLock \in [Setting -> Requester \cup {Blank}]
  /\ forked \subseteq Setting

Init ==
  /\ stored = [k \in Setting |-> NoRow]
  /\ history = [k \in Setting |-> [v \in 1 .. MaxChanges |-> Unlogged]]
  /\ request = [r \in Requester |-> Free]
  /\ rowLock = [k \in Setting |-> Blank]
  /\ forked = {}
-----------------------------------------------------------------------------
\* A request for one setting or for two different ones, in either order.
Ask(r, items) ==
  /\ request[r] = Free
  /\ request' = [request EXCEPT ![r] = [Free EXCEPT !.step = "read", !.items = items]]
  /\ UNCHANGED <<stored, history, rowLock, forked>>

\* updateSettings reads the row of its next item.
ReadRow(r) ==
  /\ request[r].step = "read" /\ request[r].items # <<>>
  /\ stored[Head(request[r].items).setting].version < MaxChanges
  /\ request' = [request EXCEPT ![r].step = "write",
                                ![r].read = stored[Head(request[r].items).setting],
                                ![r].overtaken = FALSE]
  /\ UNCHANGED <<stored, history, rowLock, forked>>

\* rollbackSetting reads a row of the history and the current row, outside its
\* transaction.
AskBack(r, k, version) ==
  /\ request[r] = Free
  /\ IsLogged(k, version) /\ stored[k].version < MaxChanges
  /\ request' = [request EXCEPT ![r] =
       [Free EXCEPT !.step = "write", !.read = stored[k],
                    !.items = <<[setting |-> k, content |-> history[k][version].after,
                                 mode |-> "immediate"]>>]]
  /\ UNCHANGED <<stored, history, rowLock, forked>>

\* The row and the history row of one item: a mode other than immediate leaves
\* the value of an existing row in force.
Written(item, read) ==
  IF item.mode = "immediate" \/ read.version = 0
    THEN [value |-> item.content, version |-> read.version + 1]
    ELSE [value |-> read.value, version |-> read.version + 1]
Logged(item, read) == [before |-> read.value, after |-> item.content]

Locks(r, k) == rowLock[k] \in {Blank, r}
Unlock(r) == rowLock' = [k \in Setting |-> IF rowLock[k] = r THEN Blank ELSE rowLock[k]]
Abort(r) == request' = [request EXCEPT ![r] = Free] /\ Unlock(r)

\* A request with the row and the history row of its first item.
Progress(req, k, row, past) ==
  [step |-> "read", items |-> Tail(req.items), read |-> NoRow, overtaken |-> FALSE,
   wrote |-> [x \in DOMAIN req.wrote \cup {k} |-> IF x = k THEN row ELSE req.wrote[x]],
   logged |-> [x \in DOMAIN req.logged \cup {k} |-> IF x = k THEN past ELSE req.logged[x]],
   blind |-> IF req.overtaken THEN req.blind \cup {k} ELSE req.blind]

\* Upsert of the row, which waits for its lock, and insert of the history row:
\* a version already in the history fails the whole request.
WriteRow(r) ==
  LET item == Head(request[r].items)
      k == item.setting
      row == Written(item, request[r].read)
  IN  /\ request[r].step = "write" /\ Locks(r, k)
      /\ \/ /\ IsLogged(k, row.version)
            /\ Abort(r)
         \/ /\ ~ IsLogged(k, row.version)
            /\ rowLock' = [rowLock EXCEPT ![k] = r]
            /\ request' = [request EXCEPT ![r] =
                 Progress(@, k, row, Logged(item, request[r].read))]
      /\ UNCHANGED <<stored, history, forked>>

\* Two requests that wait for each other's rows: the database ends one of them.
Deadlock(r) ==
  /\ request[r].step = "write"
  /\ \E other \in Requester \ {r} :
       /\ rowLock[Head(request[r].items).setting] = other
       /\ request[other].step = "write"
       /\ rowLock[Head(request[other].items).setting] = r
  /\ Abort(r)
  /\ UNCHANGED <<stored, history, forked>>

\* All items are written: the transaction commits.
Commit(r) ==
  LET done == DOMAIN request[r].wrote
      logged(k) == [before |-> request[r].logged[k].before, after |-> request[r].logged[k].after,
                    over |-> stored[k].value]
  IN  /\ request[r].step = "read" /\ request[r].items = <<>>
      /\ stored' = [k \in Setting |-> IF k \in done THEN request[r].wrote[k] ELSE stored[k]]
      /\ history' = [k \in Setting |-> [v \in 1 .. MaxChanges |->
           IF k \in done /\ v = request[r].wrote[k].version THEN logged(k) ELSE history[k][v]]]
      /\ forked' = forked \cup request[r].blind
      /\ Abort(r)

\* saveMailConfig: every row of the form with the version after the stored one, in
\* one transaction and without a history row.  It locks the rows one at a time until
\* it commits; nobody sees or changes them between its locks and its commit, which
\* are one step here.  What it writes is what it loaded, with any field changed.
SaveForm(values) ==
  /\ \A k \in MailSetting : rowLock[k] = Blank /\ stored[k].version < MaxChanges
  /\ stored' = [k \in Setting |->
       IF k \in MailSetting
         THEN [value |-> values[k], version |-> stored[k].version + 1]
         ELSE stored[k]]
  /\ request' = [r \in Requester |->
       IF request[r].step = "write" /\ Head(request[r].items).setting \in MailSetting
         THEN [request[r] EXCEPT !.overtaken = TRUE] ELSE request[r]]
  /\ UNCHANGED <<history, rowLock, forked>>

\* The client goes away or the database fails: the transaction is rolled back.
Fail(r) ==
  /\ request[r] # Free
  /\ Abort(r)
  /\ UNCHANGED <<stored, history, forked>>

\* The requests (bound): any item, or two for different settings that get the same
\* content at once.
Single == {<<i>> : i \in Item}
Double == {<<i, j>> : i, j \in Item}
Requests == Single \cup {pair \in Double : pair[1].setting # pair[2].setting
                                          /\ pair[1].content = pair[2].content
                                          /\ pair[1].mode = "immediate" /\ pair[2].mode = "immediate"}

Next ==
  \/ \E r \in Requester :
       \/ \E items \in Requests : Ask(r, items)
       \/ \E k \in Setting, v \in 1 .. MaxChanges : AskBack(r, k, v)
       \/ ReadRow(r) \/ WriteRow(r) \/ Deadlock(r) \/ Commit(r) \/ Fail(r)
  \/ \E values \in [MailSetting -> Content] : SaveForm(values)

Spec == Init /\ [][Next]_settingVars
-----------------------------------------------------------------------------
\* The history explains the settings however requests interleave: what a history row
\* calls the value before is the value it replaced, and no row is ahead of the setting,
\* unless a change overwrote a save of the mail form made after it had read the row;
\* that can be the fate of the form's settings only, and all others have a history
\* row for every version, so no acknowledged change of theirs is lost
\* (updateSettings, rollbackSetting, saveMailConfig).
HistoryExplains ==
  /\ forked \subseteq MailSetting
  /\ \A k \in Setting \ forked : \A v \in 1 .. MaxChanges :
       IsLogged(k, v) => v <= stored[k].version /\ history[k][v].before = history[k][v].over
  /\ \A k \in Setting \ MailSetting : \A v \in 1 .. stored[k].version : IsLogged(k, v)
=============================================================================
