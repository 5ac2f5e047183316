------------------------ MODULE MCDirectoryTransfer ------------------------
(***************************************************************************)
(* The tree sent: a directory 1 with a subdirectory 2 that holds the file  *)
(* 3, a link 4 whose target has three units, an empty file 5, read-only, a *)
(* fifo 6 and a socket 7.  The empty file follows the link on its stream   *)
(* and takes two units: a link that shrinks from three to one swallows it. *)
(***************************************************************************)
EXTENDS DirectoryTransfer

TreeParent == <<0, 1, 2, 1, 1, 1, 1>>
TreeKind   == <<"DirectoryEntry", "DirectoryEntry", "DirectoryFile", "DirectorySymlink",
                "DirectoryFile", "Other", "Socket">>
TreeMode   == <<"rw", "rw", "rw", "rw", "ro", "rw", "rw">>
TreeLength == <<0, 0, 4, 3, 0, 0, 0>>

\* Older links at the receiver: none, at the path of file 5 to file 3, and at
\* the path of directory 2 to directory 1.
NoLinks == [i \in Paths |-> i]
ToFile  == [NoLinks EXCEPT ![5] = 3]
ToDir   == [NoLinks EXCEPT ![2] = 1]

TreeSetup(send, recv, hidden, leads) ==
    [send |-> send, recv |-> recv, hidden |-> hidden, leads |-> leads]

TreeSetups ==
    {TreeSetup(2, 2, {}, NoLinks), TreeSetup(1, 1, {}, NoLinks), TreeSetup(1, 1, {3}, NoLinks),
     TreeSetup(2, 1, {3}, NoLinks), TreeSetup(1, 2, {}, NoLinks), TreeSetup(2, 2, {}, ToFile)}

LinkedSetups == {TreeSetup(2, 2, {}, ToFile), TreeSetup(2, 2, {}, ToDir)}
=============================================================================
