--------------------------- MODULE FileRefinement ---------------------------
(***************************************************************************)
(* FileLayer keeps the promise of FileStore.                               *)
(***************************************************************************)
EXTENDS FileLayer

\* What the files hold, if crd is what is read.
Contents(crd) ==
  [f \in File |-> [i \in 0 .. Bytes[f] - 1 |-> crd[<<f, i \div SecSize>>][i % SecSize]]]

\* The sector in the cache c is read from there and not from the card crd.
View(crd, c) == [crd EXCEPT ![c.lba] = c.data]

Now       == Contents(View(card, cache))
Durable   == Contents(card)
CardReady == slot = "ready"
Place     == [who  |-> openfile,
              file |-> IF fatfs.flag = FA_OPENED THEN fatfs.file ELSE NoFile,
              pos  |-> IF fatfs.flag = FA_OPENED THEN fatfs.fptr ELSE 0]

Store == INSTANCE FileStore WITH
  now <- Now, durable <- Durable, ready <- CardReady, name <- path, place <- Place

\* A write is done "automatically on next read" (test_file.c): a seek, which
\* may come in between, changes no file.
SeekLosesNothing == [][\A h \in Handle, o \in Offset : file_seek(h, o) => UNCHANGED Now]_vars

\* The layers below simplefile.h implement its promise.
StoreKept == Store!StoreSpec
=============================================================================
