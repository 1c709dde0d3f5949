----------------------------- MODULE MCWordFile -----------------------------
(* The sizes of the lines of WordFile, with the newline. *)
EXTENDS WordFile

Sizes == [word \in {hellomsg, finishmsg, NotFound, "lab", "networks"} |->
            CASE word = hellomsg -> 6
              [] word = finishmsg -> 7
              [] word = NotFound -> 14
              [] word = "lab" -> 4
              [] OTHER -> 9]

\* NOTFOUND WORD 1, and what the server has not initialized.
MCSize == [word \in Answers |->
            IF word \in DOMAIN Sizes THEN Sizes[word] ELSE IF word = Junk THEN 1 ELSE 16]
=============================================================================
