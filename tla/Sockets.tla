------------------------------- MODULE Sockets -------------------------------
(***************************************************************************)
(* The socket files of compositors (wayland-server.c): wl_display_add_     *)
(* socket, _auto and _fd, wl_socket_lock and wl_socket_destroy, each system*)
(* call being a step, in several processes that start, end and crash as    *)
(* they like and share one XDG_RUNTIME_DIR.                                *)
(*                                                                         *)
(* What a process leaves behind when it crashes is what stays on the file  *)
(* system; its locks go, being those of open files.                        *)
(***************************************************************************)
EXTENDS Integers, FiniteSets

CONSTANTS
    Procs,          \* compositors
    Sockets,        \* memory for struct wl_socket
    Process,        \* [Sockets -> Procs]
    MAX_DISPLAYNO,  \* the last name that wl_display_add_socket_auto tries
    NoFile,
    Writable,       \* compositors whose umask leaves S_IWUSR or S_IWGRP in the
                    \* mode of a socket's file
    QuitsMeet       \* whether a compositor removes its lock file while another
                    \* is between opening it and trying to lock it

ASSUME SocketsAssumption ==
    /\ IsFiniteSet(Sockets) /\ Process \in [Sockets -> Procs]
    /\ MAX_DISPLAYNO \in Nat /\ Writable \subseteq Procs
    /\ NoFile \notin Sockets \cup Nat
    /\ QuitsMeet \in BOOLEAN

Names  == 0 .. MAX_DISPLAYNO
Inodes == 1 .. Cardinality(Sockets) + Cardinality(Names)

VARIABLES
    display,    \* of each process: "none", "up" or "quits"
    lockfile,   \* the inode at the path of each name's lock file
    sockfile,   \* the socket at each name's path
    socket,     \* struct wl_socket, and where the function that works on it is
    locked      \* sockets whose fd_lock has the lock of its inode

socketVars == <<display, lockfile, sockfile, socket, locked>>

NoSocket == [at |-> "none", auto |-> FALSE, name |-> NoFile, fd_lock |-> NoFile]

wl_socket ==
    [at : {"none", "open", "flock", "stat", "unlink", "bind", "listen", "added",
           "destroy", "close", "unlock"},
     auto : BOOLEAN, name : Names \cup {NoFile}, fd_lock : Inodes \cup {NoFile}]

SocketsTypeOK ==
    /\ display \in [Procs -> {"none", "up", "quits"}]
    /\ lockfile \in [Names -> Inodes \cup {NoFile}]
    /\ sockfile \in [Names -> Sockets \cup {NoFile}]
    /\ socket \in [Sockets -> wl_socket]
    /\ locked \subseteq Sockets

SocketsInit ==
    /\ display = [p \in Procs |-> "none"]
    /\ lockfile = [n \in Names |-> NoFile]
    /\ sockfile = [n \in Names |-> NoFile]
    /\ socket = [s \in Sockets |-> NoSocket]
    /\ locked = {}

-----------------------------------------------------------------------------
At(s, where) == socket[s].at = where

Goes(s, where) == socket' = [socket EXCEPT ![s].at = where]

(* The process is in none of these functions.                              *)
NotInside(p) ==
    \A s \in Sockets : Process[s] = p => socket[s].at \in {"none", "added"}

FreshInode ==
    CHOOSE i \in Inodes :
        /\ \A n \in Names : lockfile[n] # i
        /\ \A s \in Sockets : socket[s].fd_lock # i

-----------------------------------------------------------------------------
wl_display_create(p) ==
    /\ display[p] = "none"
    /\ display' = [display EXCEPT ![p] = "up"]
    /\ UNCHANGED <<lockfile, sockfile, socket, locked>>

(* wl_socket_init_for_display_name has accepted the path.                  *)
Adds(s, auto, n) ==
    /\ display[Process[s]] = "up" /\ NotInside(Process[s]) /\ At(s, "none")
    /\ socket' = [socket EXCEPT ![s] =
                    [at |-> "open", auto |-> auto, name |-> n, fd_lock |-> NoFile]]
    /\ UNCHANGED <<display, lockfile, sockfile, locked>>

wl_display_add_socket(s, n)   == Adds(s, FALSE, n)
wl_display_add_socket_auto(s) == Adds(s, TRUE, 0)

(* The path of an existing socket is not the library's business.           *)
wl_display_add_socket_fd(s) ==
    /\ display[Process[s]] = "up" /\ NotInside(Process[s]) /\ At(s, "none")
    /\ Goes(s, "added")
    /\ UNCHANGED <<display, lockfile, sockfile, locked>>

(* Mutation: the addresses stay, and wl_socket_destroy unlinks them.       *)
LockFailsDirty(s) ==
    socket' = [socket EXCEPT ![s].at = "destroy"]

(* The error path of wl_socket_lock: it closes the lock file and clears the*)
(* two addresses, so that wl_socket_destroy unlinks nothing.  The automatic*)
(* names are tried on.                                                     *)
LockFails(s) ==
    socket' = [socket EXCEPT ![s] =
        IF @.auto /\ @.name < MAX_DISPLAYNO
        THEN [at |-> "open", auto |-> TRUE, name |-> @.name + 1, fd_lock |-> NoFile]
        ELSE NoSocket]

(* open(O_CREAT)                                                           *)
OpenLock(s) ==
    /\ At(s, "open")
    /\ LET n == socket[s].name
           i == IF lockfile[n] = NoFile THEN FreshInode ELSE lockfile[n]
       IN  \/ /\ lockfile' = [lockfile EXCEPT ![n] = i]
              /\ socket' = [socket EXCEPT ![s].at = "flock", ![s].fd_lock = i]
           \/ LockFails(s) /\ UNCHANGED lockfile
    /\ UNCHANGED <<display, sockfile, locked>>

(* flock(LOCK_EX | LOCK_NB): also another open file of the same process    *)
(* excludes.                                                               *)
Flock(s) ==
    /\ At(s, "flock")
    /\ IF \E t \in locked : socket[t].fd_lock = socket[s].fd_lock
       THEN LockFails(s) /\ UNCHANGED locked
       ELSE Goes(s, "stat") /\ locked' = locked \cup {s}
    /\ UNCHANGED <<display, lockfile, sockfile>>

(* Mutation: what a crashed compositor left is not looked for.             *)
NoStat(s) ==
    /\ At(s, "stat")
    /\ Goes(s, "bind")
    /\ UNCHANGED <<display, lockfile, sockfile, locked>>

(* st_mode & S_IWUSR || st_mode & S_IWGRP, of the file that the socket f   *)
(* was bound to                                                            *)
HasWriteBit(f) == Process[f] \in Writable

(* A path that nobody may write to stays; if stat fails with anything but  *)
(* ENOENT, the lock goes with the file descriptor.                         *)
Stat(s) ==
    /\ At(s, "stat")
    /\ LET f == sockfile[socket[s].name]
       IN  \/ /\ Goes(s, IF f # NoFile /\ HasWriteBit(f) THEN "unlink" ELSE "bind")
              /\ UNCHANGED locked
           \/ LockFails(s) /\ locked' = locked \ {s}
    /\ UNCHANGED <<display, lockfile, sockfile>>

UnlinkStale(s) ==
    /\ At(s, "unlink")
    /\ sockfile' = [sockfile EXCEPT ![socket[s].name] = NoFile]
    /\ Goes(s, "bind")
    /\ UNCHANGED <<display, lockfile, locked>>

(* _wl_display_add_socket: bind fails if there is a file at the path, and  *)
(* socket, bind, listen and wl_event_loop_add_fd may fail anyway.          *)
Bind(s) ==
    /\ At(s, "bind")
    /\ LET n == socket[s].name
       IN  \/ /\ sockfile[n] = NoFile
              /\ sockfile' = [sockfile EXCEPT ![n] = s]
              /\ Goes(s, "listen")
           \/ Goes(s, "destroy") /\ UNCHANGED sockfile
    /\ UNCHANGED <<display, lockfile, locked>>

Listen(s) ==
    /\ At(s, "listen")
    /\ Goes(s, "added") \/ Goes(s, "destroy")
    /\ UNCHANGED <<display, lockfile, sockfile, locked>>

-----------------------------------------------------------------------------
(* wl_display_destroy                                                      *)
Quit(p) ==
    /\ display[p] = "up" /\ NotInside(p)
    /\ display' = [display EXCEPT ![p] = "quits"]
    /\ UNCHANGED <<lockfile, sockfile, socket, locked>>

DestroyNext(s) ==
    /\ display[Process[s]] = "quits" /\ NotInside(Process[s]) /\ At(s, "added")
    /\ IF socket[s].name = NoFile
       THEN socket' = [socket EXCEPT ![s] = NoSocket]
       ELSE Goes(s, "destroy")
    /\ UNCHANGED <<display, lockfile, sockfile, locked>>

Gone(p) ==
    /\ display[p] = "quits"
    /\ \A s \in Sockets : Process[s] = p => At(s, "none")
    /\ display' = [display EXCEPT ![p] = "none"]
    /\ UNCHANGED <<lockfile, sockfile, socket, locked>>

(* wl_socket_destroy                                                       *)
UnlinkSocket(s) ==
    /\ At(s, "destroy")
    /\ sockfile' = [sockfile EXCEPT ![socket[s].name] = NoFile]
    /\ Goes(s, "close")
    /\ UNCHANGED <<display, lockfile, locked>>

UnlinkLock(s) ==
    /\ At(s, "close")
    /\ QuitsMeet \/ \A t \in Sockets : At(t, "flock") => socket[t].name # socket[s].name
    /\ lockfile' = [lockfile EXCEPT ![socket[s].name] = NoFile]
    /\ Goes(s, "unlock")
    /\ UNCHANGED <<display, sockfile, locked>>

CloseLock(s) ==
    /\ At(s, "unlock")
    /\ socket' = [socket EXCEPT ![s] = NoSocket]
    /\ locked' = locked \ {s}
    /\ UNCHANGED <<display, lockfile, sockfile>>

Crash(p) ==
    /\ display[p] # "none"
    /\ display' = [display EXCEPT ![p] = "none"]
    /\ socket' = [s \in Sockets |-> IF Process[s] = p THEN NoSocket ELSE socket[s]]
    /\ locked' = {s \in locked : Process[s] # p}
    /\ UNCHANGED <<lockfile, sockfile>>

-----------------------------------------------------------------------------
WlSocket(s) ==
    \/ \E n \in Names : wl_display_add_socket(s, n)
    \/ wl_display_add_socket_auto(s) \/ wl_display_add_socket_fd(s)
    \/ OpenLock(s) \/ Flock(s) \/ Stat(s) \/ UnlinkStale(s) \/ Bind(s) \/ Listen(s)
    \/ DestroyNext(s) \/ UnlinkSocket(s) \/ UnlinkLock(s) \/ CloseLock(s)

SocketsNext ==
    \/ \E p \in Procs : wl_display_create(p) \/ Quit(p) \/ Gone(p) \/ Crash(p)
    \/ \E s \in Sockets : WlSocket(s)

SocketsSpec == SocketsInit /\ [][SocketsNext]_socketVars

-----------------------------------------------------------------------------
(* "The function also fails if ... the socket name is already in use"      *)
(* (wl_display_add_socket): a name belongs to one socket, and until that is*)
(* destroyed or its process ends, its path leads clients to it and its lock*)
(* file keeps others away.                                                 *)
NameExclusive ==
    \A s \in Sockets :
        At(s, "added") /\ socket[s].name # NoFile =>
            /\ sockfile[socket[s].name] = s
            /\ s \in locked /\ lockfile[socket[s].name] = socket[s].fd_lock

(* A name is not lost with a compositor that crashes: whoever has the lock *)
(* finds the path free by the time it calls bind, or else the file of a    *)
(* process that gave it no write bit.  wl_socket_lock leaves that one, bind*)
(* fails, and wl_socket_destroy removes it: it costs its name one attempt. *)
NameRecovered ==
    \A s \in Sockets :
        LET f == sockfile[socket[s].name]
        IN  /\ At(s, "bind") => f = NoFile \/ ~HasWriteBit(f)
            /\ At(s, "close") => f = NoFile

(* What the locks are for: whoever is past wl_socket_lock has the lock of   *)
(* an inode that is nobody else's and, until it unlinks it, that of the     *)
(* inode which others find at the path; whoever is about to try has opened *)
(* that one.                                                               *)
Holds(s) == socket[s].at \notin {"none", "open", "flock"} /\ socket[s].name # NoFile

LockOf(s) ==
    /\ s \in locked <=> Holds(s)
    /\ At(s, "none") => socket[s] = NoSocket
    /\ socket[s].name = NoFile => socket[s].at \in {"none", "added"}
    /\ Holds(s) \/ At(s, "flock") =>
          /\ socket[s].fd_lock # NoFile
          /\ At(s, "unlock") \/ lockfile[socket[s].name] = socket[s].fd_lock

LockInv ==
    /\ \A s \in Sockets : LockOf(s)
    /\ \A s, t \in locked : socket[s].fd_lock = socket[t].fd_lock => s = t

(* And what they protect: from bind on, the path is the socket's.          *)
PathInv ==
    \A s \in Sockets : At(s, "listen") => sockfile[socket[s].name] = s

(* The types of the files and of struct wl_socket, whose the locks are and *)
(* whose the names.                                                        *)
NameInv == SocketsTypeOK /\ LockInv /\ PathInv /\ NameExclusive
=============================================================================
