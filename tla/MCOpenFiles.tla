---------------------------- MODULE MCOpenFiles -----------------------------
(* Finite instances of OpenFiles.                                           *)
EXTENDS OpenFiles

CONSTANTS f1, f2, f3

a == 1
b == 2

Commands == {"open", "close", "lseek", "read", "write", "cat", "cp", "quit", "kill"}

\* One file over all kinds of pointers: the long text crosses them.
LongTexts == {<<a>>, <<b, b, b, b>>}

\* A text that fills a block of two bytes and begins another, and one that
\* changes a byte of it.
CopyTexts == {<<a, b, a>>, <<b>>}

OneByte == {<<a>>}
=============================================================================
