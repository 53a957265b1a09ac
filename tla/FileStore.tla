----------------------------- MODULE FileStore -----------------------------
(***************************************************************************)
(* What simplefile.h promises to the drive emulator and to the menu: files *)
(* of fixed size, read and written through handles at a position that only *)
(* the handle used last keeps ("when switching file, the other file may    *)
(* loose its position").  A write is seen by every later read at once      *)
(* (now) and reaches the card later (durable).  The promise says what may  *)
(* go wrong too: what has not reached the card is lost with the power,     *)
(* with the card, or when a seek takes the number of the waiting sector    *)
(* for the place sought (Slip); and a write in the last, partial sector or *)
(* beyond the end puts its bytes in some other sector (Overrun).           *)
(***************************************************************************)
EXTENDS Integers

CONSTANTS
  Handle,       \* the SimpleFile structs
  File,         \* the files on the card
  NoFile,       \* a handle whose path is empty; no file, no handle
  Bytes,        \* File -> its size
  ReadOnlyFile, \* File -> the read-only attribute
  Byte,         \* the values of a byte of a file that matter
  SecSize,      \* bytes in a sector: 512
  Offset        \* the offsets callers seek

VARIABLES
  now,       \* File -> contents, as a read would return them
  durable,   \* File -> contents, as on the card
  ready,     \* the card is in its slot and initialised
  name,      \* Handle -> the file its path names, or NoFile
  place,     \* [who, file, pos]: the handle used last and where it stands
  got        \* [file, pos, bytes]: the bytes the last step gave a reader

storeVars == <<now, durable, ready, name, place, got>>

Nothing == [file |-> NoFile, pos |-> 0, bytes |-> <<>>]

\* Contents c with n bytes of v from position p on, as far as the file reaches.
Filled(c, p, n, v) == [i \in DOMAIN c |-> IF i \in p .. p + n - 1 THEN v ELSE c[i]]

StoreInit ==
  /\ \A f \in File : DOMAIN now[f] = 0 .. Bytes[f] - 1
  /\ durable = now
  /\ ready = TRUE
  /\ name = [h \in Handle |-> NoFile]
  /\ place.file = NoFile /\ place.pos = 0
  /\ got = Nothing

\* What waits reaches the card, if that answers, or goes on waiting.
Settle == durable' = durable \/ (ready /\ durable' = now)

\* file_check_open: a handle that was not used last stands at the beginning.
Here(h) == IF place.who = h THEN place ELSE [who |-> h, file |-> name[h], pos |-> 0]

Turn(h) ==
  /\ place' = Here(h)
  /\ got' = Nothing
  /\ UNCHANGED <<ready, name, now>>
  /\ Settle

Clip(f, o) == IF f = NoFile THEN 0 ELSE IF o < Bytes[f] THEN o ELSE Bytes[f]

Seek(h, o) ==
  /\ place' = [Here(h) EXCEPT !.pos = Clip(Here(h).file, o)]
  /\ got' = Nothing
  /\ UNCHANGED <<ready, name, now>>
  /\ Settle

Open(h, f) ==
  /\ place' = [who |-> h, file |-> f, pos |-> 0]
  /\ name' = [name EXCEPT ![h] = f]
  /\ got' = Nothing
  /\ UNCHANGED <<ready, now>>
  /\ Settle

Close(H) ==
  /\ name' = [h \in Handle |-> IF h \in H THEN NoFile ELSE name[h]]
  /\ got' = Nothing
  /\ UNCHANGED <<place, ready, now, durable>>

\* One step reads no more than a sector, and what the file holds now.
Read(n) ==
  /\ place.file # NoFile
  /\ place.pos + n <= Bytes[place.file]
  /\ place' = [place EXCEPT !.pos = @ + n]
  /\ got' = [file |-> place.file, pos |-> place.pos,
             bytes |-> [i \in 1 .. n |-> now[place.file][place.pos + i - 1]]]
  /\ UNCHANGED <<ready, name, now, durable>>

\* What waited settles first; the new bytes wait.
Write(n, v) ==
  /\ place.file # NoFile /\ ~ReadOnlyFile[place.file]
  /\ place' = [place EXCEPT !.pos = @ + n]
  /\ got' = Nothing
  /\ UNCHANGED <<ready, name>>
  /\ now' = [now EXCEPT ![place.file] = Filled(@, place.pos, n, v)]
  /\ Settle

\* Bytes written past the last whole sector of a file may change any one
\* sector of any file, or of the file system, now or when they reach the card.
SameButOneSector(c, d) ==
  \E f \in File : \E s \in 0 .. Bytes[f] \div SecSize :
    \A g \in File : \A i \in DOMAIN c[g] :
      (g # f \/ i \div SecSize # s) => d[g][i] = c[g][i]

Overrun ==
  /\ place.file # NoFile /\ ~ReadOnlyFile[place.file]
  /\ place.pos >= Bytes[place.file]
  /\ place'.who = place.who /\ place'.file = place.file
  /\ place'.pos >= Bytes[place.file]
  /\ got' = Nothing
  /\ UNCHANGED <<ready, name>>
  /\ SameButOneSector(now, now')
  /\ Settle

\* What waits is lost, and only if the number of its sector is the very offset
\* sought: that sector, or what was written beyond the end.
Slip(o) ==
  /\ place' = [place EXCEPT !.pos = Clip(place.file, o)]
  /\ got' = Nothing
  /\ UNCHANGED <<ready, name>>
  /\ now' = durable
  /\ \/ \A f \in File : \A i \in DOMAIN now[f] :
          now[f][i] # durable[f][i] => f = place.file /\ i \div SecSize = o
     \/ place.file # NoFile /\ o * SecSize >= Bytes[place.file] /\ SameButOneSector(now, durable)
  /\ UNCHANGED durable

Sync ==
  /\ got' = Nothing
  /\ UNCHANGED <<place, ready, name, now>>
  /\ Settle

\* A call that never returns, because the card does not answer.
Stall ==
  /\ ~ready
  /\ got' = Nothing
  /\ name' = name \/ \E h \in Handle, f \in File : name' = [name EXCEPT ![h] = f]
  /\ UNCHANGED <<place, ready, now, durable>>

\* The card leaves its slot or comes back; back unnoticed it does not answer.
Slot ==
  /\ ~ready'
  /\ got' = Nothing
  /\ UNCHANGED <<place, name, now, durable>>

\* The power fails, or the card is mounted again.
Restart ==
  /\ place'.file = NoFile /\ place'.pos = 0
  /\ name' = [h \in Handle |-> NoFile]
  /\ got' = Nothing
  /\ now' = durable
  /\ UNCHANGED durable

StoreNext ==
  \/ \E h \in Handle : Turn(h)
  \/ \E h \in Handle, o \in Offset : Seek(h, o)
  \/ \E o \in Offset : Slip(o)
  \/ \E h \in Handle, f \in File : Open(h, f)
  \/ \E H \in SUBSET Handle : Close(H)
  \/ \E n \in 1 .. SecSize : Read(n)
  \/ \E n \in 1 .. SecSize, v \in Byte : Write(n, v)
  \/ Overrun
  \/ Sync
  \/ Stall
  \/ Slot
  \/ Restart

StoreSpec == StoreInit /\ [][StoreNext]_storeVars
=============================================================================
