------------------------------- MODULE MCRcp --------------------------------
(* The copies of the run of Rcp.                                            *)
EXTENDS Rcp

File(n, in) == [kind |-> "file", size |-> n, of |-> in]
Dir(in) == [kind |-> "dir", size |-> 0, of |-> in]
End(i) == [kind |-> "end", size |-> 0, of |-> i]

\* Three files, one of them empty; a directory with a file and a directory.
SomeItems ==
  {<<File(2, 0), File(0, 0), File(1, 0)>>,
   <<Dir(0), File(1, 1), Dir(1), File(1, 3), End(3), End(1), File(1, 0)>>}
SomeCopies == {[put |-> put, p |-> p, items |-> items] :
               put \in BOOLEAN, p \in BOOLEAN, items \in SomeItems}
=============================================================================
