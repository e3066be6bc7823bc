------------------------------ MODULE HalFiles ------------------------------
(***************************************************************************)
(* The file descriptors of the Nios board support package (HAL/src): the   *)
(* descriptor pool with its high-water mark, open, close, ioctl and fcntl, *)
(* exclusive access to devices, and the start-up that directs standard in, *)
(* out and error.  The package is the single-threaded one, whose           *)
(* semaphores are empty: a call runs to its end before the next.           *)
(*                                                                         *)
(* A name given to open is the device or the file system it belongs to.    *)
(* The application calls close, ioctl and fcntl only on descriptors it     *)
(* has: the code looks into the entry without a test.                      *)
(***************************************************************************)
EXTENDS Integers

CONSTANTS
  ALT_MAX_FD,    \* size of the pool
  Devices,       \* what drivers may register, alt_dev_null among them
  FileSystems,   \* what file systems may register
  alt_dev_null,  \* the device that is always registered
  NoDev,         \* the device of a free descriptor
  Stdio          \* the devices system.h names for descriptors 0, 1 and 2

ASSUME FilesAssumption ==
  /\ ALT_MAX_FD \in Nat /\ ALT_MAX_FD > 3
  /\ alt_dev_null \in Devices
  /\ NoDev \notin Devices \cup FileSystems
  /\ Devices \cap FileSystems = {}
  /\ Stdio \in [0 .. 2 -> Devices]

Fd  == 0 .. ALT_MAX_FD - 1
Std == 0 .. 2

\* Bits of fd_flags: ALT_FD_EXCL, ALT_FD_DEV, and one that fcntl may change.
Flags == {"excl", "dev", "nonblock"}

Free == [dev |-> NoDev, flags |-> {}]

VARIABLES
  phase,         \* how far alt_main has come
  registered,    \* the entries of alt_dev_list and alt_fs_list
  alt_fd_list,   \* the pool
  alt_max_fd,    \* the highest descriptor ever allocated
  held           \* the descriptors open has returned and close not released

filesVars == <<phase, registered, alt_fd_list, alt_max_fd, held>>

Phase == {"sys_init", "stdout", "stdin", "stderr", "main", "exit"}

\* Before alt_main: the mark is below the three descriptors of the system.
FilesInit ==
  /\ phase = "sys_init"
  /\ registered = {alt_dev_null}
  /\ alt_fd_list = [fd \in Fd |-> IF fd \in Std THEN [Free EXCEPT !.dev = alt_dev_null]
                                  ELSE Free]
  /\ alt_max_fd = -1
  /\ held = {}

InUse(fd) == alt_fd_list[fd].dev # NoDev
Excl(fd)  == "excl" \in alt_fd_list[fd].flags

-----------------------------------------------------------------------------
(* Opening a descriptor.                                                   *)

\* alt_get_fd: the first free descriptor, which may raise the mark.
Available == \E fd \in Fd : ~ InUse(fd)
GetFd     == CHOOSE fd \in Fd : ~ InUse(fd) /\ \A i \in 0 .. fd - 1 : InUse(i)
Raised    == IF GetFd > alt_max_fd THEN GetFd ELSE alt_max_fd

\* Mutant: one entry short, as alt_fd_lock is.
FileLockedShort(dev, fd) ==
  \E i \in Fd : i < Raised /\ i # fd /\ alt_fd_list[i].dev = dev /\ Excl(i)

\* alt_file_locked: another descriptor up to the mark holds the device.
FileLocked(dev, fd) ==
  \E i \in Fd : i <= Raised /\ i # fd /\ alt_fd_list[i].dev = dev /\ Excl(i)

\* Whether open succeeds on the descriptor it has got; ok is the answer of
\* the driver's own open function, which alt_dev_null does not have.
Opens(dev, ok) ==
  /\ dev \in Devices => ~ FileLocked(dev, GetFd)
  /\ ok \/ dev = alt_dev_null

\* The entry it fills: the caller's flags without the two of the HAL.
Entry(dev, flags) ==
  [dev |-> dev, flags |-> (flags \ {"excl", "dev"})
                          \cup (IF dev \in Devices THEN {"dev"} ELSE {})]

Open(dev, flags, ok) ==
  /\ phase = "main"
  /\ dev \in registered /\ Available
  /\ Opens(dev, ok)
  /\ alt_fd_list' = [alt_fd_list EXCEPT ![GetFd] = Entry(dev, flags)]
  /\ alt_max_fd' = Raised
  /\ held' = held \cup {GetFd}
  /\ UNCHANGED <<phase, registered>>

\* Mutant: the descriptor is not released.
OpenFailsKeeps(dev, ok) ==
  /\ phase = "main"
  /\ dev \in registered /\ Available
  /\ ~ Opens(dev, ok)
  /\ alt_fd_list' = [alt_fd_list EXCEPT ![GetFd] = Entry(dev, {})]
  /\ alt_max_fd' = Raised
  /\ UNCHANGED <<phase, registered, held>>

\* The device is locked or its driver refuses: the descriptor goes back to
\* the pool, the mark stays.
OpenFails(dev, ok) ==
  /\ phase = "main"
  /\ dev \in registered /\ Available
  /\ ~ Opens(dev, ok)
  /\ alt_max_fd' = Raised
  /\ UNCHANGED <<phase, registered, alt_fd_list, held>>

\* No such device (ENODEV), or no free descriptor (EMFILE).
OpenNone(dev) ==
  /\ phase = "main"
  /\ dev \notin registered \/ ~ Available
  /\ UNCHANGED filesVars

-----------------------------------------------------------------------------
(* Using one.                                                              *)

\* alt_release_fd: the three descriptors of the system stay as they are.
Close(fd) ==
  /\ phase = "main"
  /\ fd \in held \cup Std
  /\ alt_fd_list' = IF fd \in Std THEN alt_fd_list ELSE [alt_fd_list EXCEPT ![fd] = Free]
  /\ held' = held \ {fd}
  /\ UNCHANGED <<phase, registered, alt_max_fd>>

\* alt_fd_lock finds no other descriptor for the device.  The mark itself
\* is not looked at.
Lockable(fd) ==
  \A i \in Fd : i < alt_max_fd /\ i # fd => alt_fd_list[i].dev # alt_fd_list[fd].dev

\* ioctl(fd, TIOCEXCL); a descriptor of a file system asks its driver.
Lock(fd) ==
  /\ phase = "main"
  /\ fd \in held \cup Std
  /\ "dev" \in alt_fd_list[fd].flags
  /\ Lockable(fd)
  /\ alt_fd_list' = [alt_fd_list EXCEPT ![fd].flags = @ \cup {"excl"}]
  /\ UNCHANGED <<phase, registered, alt_max_fd, held>>

\* ioctl(fd, TIOCNXCL).
Unlock(fd) ==
  /\ phase = "main"
  /\ fd \in held \cup Std
  /\ "dev" \in alt_fd_list[fd].flags
  /\ alt_fd_list' = [alt_fd_list EXCEPT ![fd].flags = @ \ {"excl"}]
  /\ UNCHANGED <<phase, registered, alt_max_fd, held>>

\* fcntl(fd, F_SETFL): only the flags of ALT_FCNTL_FLAGS_MASK.
SetFlags(fd, flags) ==
  /\ phase = "main"
  /\ fd \in held \cup Std
  /\ alt_fd_list' = [alt_fd_list EXCEPT ![fd].flags =
                       (@ \ {"nonblock"}) \cup (flags \cap {"nonblock"})]
  /\ UNCHANGED <<phase, registered, alt_max_fd, held>>

-----------------------------------------------------------------------------
(* alt_main.                                                               *)

\* A driver that alt_sys_init initialises registers its device.
RegisterDev(dev) ==
  /\ phase = "sys_init"
  /\ registered' = registered \cup {dev}
  /\ UNCHANGED <<phase, alt_fd_list, alt_max_fd, held>>

\* Standard in, out and error are redirected only if system.h names a
\* device other than alt_dev_null for one of them.
SysInitDone ==
  /\ phase = "sys_init"
  /\ phase' = IF \A fd \in Std : Stdio[fd] = alt_dev_null THEN "main" ELSE "stdout"
  /\ UNCHANGED <<registered, alt_fd_list, alt_max_fd, held>>

\* alt_open_fd: open, copy the entry to the system's descriptor, and
\* release the one that open had found.
Redirect(fd, ok) ==
  LET dev   == Stdio[fd]
      found == dev \in registered /\ Available
  IN
  /\ alt_fd_list' = IF found /\ Opens(dev, ok)
                    THEN [alt_fd_list EXCEPT ![fd] = Entry(dev, {})]
                    ELSE alt_fd_list
  /\ alt_max_fd' = IF found THEN Raised ELSE alt_max_fd
  /\ UNCHANGED <<registered, held>>

\* alt_io_redirect, one descriptor after the other.
IoRedirect(ok) ==
  \/ phase = "stdout" /\ Redirect(1, ok) /\ phase' = "stdin"
  \/ phase = "stdin"  /\ Redirect(0, ok) /\ phase' = "stderr"
  \/ phase = "stderr" /\ Redirect(2, ok) /\ phase' = "main"

\* main returns: alt_main closes standard out, which releases nothing, and
\* _exit spins.
MainReturns ==
  /\ phase = "main"
  /\ phase' = "exit"
  /\ UNCHANGED <<registered, alt_fd_list, alt_max_fd, held>>

Spin == phase = "exit" /\ UNCHANGED filesVars

FilesNext ==
  \/ SysInitDone \/ MainReturns \/ Spin
  \/ \E ok \in BOOLEAN : IoRedirect(ok)
  \/ \E dev \in Devices \cup FileSystems : RegisterDev(dev) \/ OpenNone(dev)
  \/ \E dev \in Devices \cup FileSystems, ok \in BOOLEAN :
       OpenFails(dev, ok) \/ \E flags \in SUBSET Flags : Open(dev, flags, ok)
  \/ \E fd \in Fd : Close(fd) \/ Lock(fd) \/ Unlock(fd)
                    \/ \E flags \in SUBSET Flags : SetFlags(fd, flags)

FilesSpec == FilesInit /\ [][FilesNext]_filesVars

-----------------------------------------------------------------------------
FilesTypeOK ==
  /\ phase \in Phase
  /\ registered \in SUBSET (Devices \cup FileSystems)
  /\ alt_fd_list \in [Fd -> [dev : Devices \cup FileSystems \cup {NoDev},
                             flags : SUBSET Flags]]
  /\ alt_max_fd \in {-1} \cup (3 .. ALT_MAX_FD - 1)
  /\ held \in SUBSET (Fd \ Std)

\* Every descriptor is free, the system's, or one the application has:
\* no path through open, its failures included, loses one.
NoneLost == \A fd \in Fd : InUse(fd) <=> fd \in held \cup Std

SameDev(f, g) == f # g /\ InUse(f) /\ alt_fd_list[f].dev = alt_fd_list[g].dev

\* At most one descriptor has exclusive access to a device, although
\* alt_fd_lock does not look at the descriptor at the mark.
OneHolder == \A f, g \in Fd : SameDev(f, g) => ~ (Excl(f) /\ Excl(g))

\* While a descriptor has exclusive access, no other one comes to the same
\* device: open finds the holder, wherever it is, by the mark.
LockedStaysShut ==
  [][\A f, g \in Fd : Excl(f) /\ SameDev(f, g)' => SameDev(f, g)]_filesVars
=============================================================================
