-------------------------- MODULE HalBench_proofs --------------------------
(***************************************************************************)
(* The board support package: for pools of every size and any devices, no  *)
(* descriptor is lost, and exclusive access to a device is exclusive; for  *)
(* a counter of any width, every alarm fires at its tick, however often    *)
(* the counter rolls over, as long as no callback stops the alarm that is  *)
(* next in the list, and the time of day goes on from where it was set;    *)
(* for any number of interrupts, routines nest by priority and no          *)
(* interrupt stays blocked, as long as a routine enables and disables      *)
(* interrupts only while the priority mask lets all of them in.            *)
(***************************************************************************)
EXTENDS HalBench, InductionTheorems, SequenceTheorems

(***************************************************************************)
(* Files.                                                                  *)
(***************************************************************************)

\* A descriptor in use is up to the mark, or one of the system's.
Marked == \A fd \in Fd : InUse(fd) => fd <= alt_max_fd \/ fd \in Std

\* Exclusive access is to devices only, and the first descriptor of a device
\* has raised the mark.
DevFlags ==
  \A fd \in Fd :
    /\ Excl(fd) => "dev" \in alt_fd_list[fd].flags
    /\ "dev" \in alt_fd_list[fd].flags => alt_fd_list[fd].dev \in Devices /\ alt_max_fd >= 3

\* The descriptor with exclusive access is the first of its device: that is
\* why alt_fd_lock may leave out the mark.
HolderFirst == \A f, g \in Fd : SameDev(f, g) /\ Excl(f) => f < g

\* Before main nothing is open, and nothing exclusive.
Startup ==
  phase \notin {"main", "exit"} => held = {} /\ \A fd \in Fd : ~ Excl(fd)

FilesInv == FilesTypeOK /\ NoneLost /\ Marked /\ DevFlags /\ HolderFirst /\ Startup

(***************************************************************************)
(* The descriptor alt_get_fd finds.                                        *)
(***************************************************************************)
LEMMA FdNumbers == Fd \subseteq Nat /\ Std \subseteq Fd
  BY FilesAssumption DEF Fd, Std

LEMMA GetFdFree ==
  ASSUME FilesTypeOK, NoneLost, Available
  PROVE  /\ GetFd \in Fd \ Std /\ ~ InUse(GetFd) /\ GetFd \notin held
         /\ Raised \in 3 .. ALT_MAX_FD - 1
         /\ Raised >= alt_max_fd /\ Raised >= GetFd
<1> DEFINE Unused == {fd \in Fd : ~ InUse(fd)}
<1>1. PICK fd \in Unused : \A i \in Unused : ~ (i < fd)
  BY FdNumbers, LeastNatural DEF Available
<1>2. \A i \in 0 .. fd - 1 : InUse(i)
  BY <1>1, FilesAssumption DEF Fd
<1>3. GetFd \in Fd /\ ~ InUse(GetFd)
  BY <1>1, <1>2 DEF GetFd
<1>4. GetFd \notin Std /\ GetFd \notin held
  BY <1>3, FdNumbers DEF NoneLost
<1>5. GetFd \in 3 .. ALT_MAX_FD - 1
  BY <1>3, <1>4, FilesAssumption DEF Fd, Std
<1>6. alt_max_fd \in {-1} \cup (3 .. ALT_MAX_FD - 1)
  BY DEF FilesTypeOK
<1> QED
  BY <1>3, <1>4, <1>5, <1>6, FilesAssumption DEF Raised

LEMMA EntryType ==
  ASSUME NEW dev \in Devices \cup FileSystems, NEW flags \in SUBSET Flags
  PROVE  /\ Entry(dev, flags) \in [dev : Devices \cup FileSystems \cup {NoDev},
                                   flags : SUBSET Flags]
         /\ Entry(dev, flags).dev = dev
         /\ "excl" \notin Entry(dev, flags).flags
         /\ "dev" \in Entry(dev, flags).flags => dev \in Devices
  BY FilesAssumption DEF Entry, Flags

\* If the device is open, no descriptor for it has exclusive access.
LEMMA OpensUnheld ==
  ASSUME FilesInv, Available, NEW dev \in Devices \cup FileSystems, NEW ok \in BOOLEAN,
         Opens(dev, ok), NEW i \in Fd, alt_fd_list[i].dev = dev
  PROVE  ~ Excl(i)
<1> SUFFICES ASSUME Excl(i) PROVE FALSE
  OBVIOUS
<1>1. dev \in Devices
  BY DEF FilesInv, DevFlags
<1>2. dev # NoDev
  BY FilesAssumption
<1>3. InUse(i)
  BY <1>2 DEF InUse
<1>4. GetFd \in Fd \ Std /\ ~ InUse(GetFd) /\ Raised \in 3 .. ALT_MAX_FD - 1 /\ Raised >= alt_max_fd
  BY GetFdFree DEF FilesInv
<1>5. alt_max_fd \in Int /\ i \in Int
  BY FdNumbers, FilesAssumption DEF FilesInv, FilesTypeOK
<1>6. i <= Raised
  BY <1>3, <1>4, <1>5, FilesAssumption DEF FilesInv, Marked, Std
<1>7. i # GetFd
  BY <1>3, <1>4
<1> QED
  BY <1>1, <1>6, <1>7 DEF Opens, FileLocked
(***************************************************************************)
(* Filling an entry: open, and the redirection before main.                *)
(***************************************************************************)
\* The device dev comes to descriptor f, which was free or, before main, one
\* of the system's.
LEMMA FillKeeps ==
  ASSUME FilesInv, Available, UNCHANGED registered,
         NEW dev \in Devices \cup FileSystems, NEW ok \in BOOLEAN, Opens(dev, ok),
         NEW flags \in SUBSET Flags,
         NEW f \in Fd,
         \/ f = GetFd /\ held' = held \cup {GetFd} /\ phase = "main" /\ phase' = "main"
         \/ /\ f \in Std /\ held' = held
            /\ phase \notin {"main", "exit"} /\ phase' \in Phase,
         alt_fd_list' = [alt_fd_list EXCEPT ![f] = Entry(dev, flags)],
         alt_max_fd' = Raised
  PROVE  FilesInv'
<1> DEFINE entry == Entry(dev, flags)
<1>1. /\ entry \in [dev : Devices \cup FileSystems \cup {NoDev}, flags : SUBSET Flags]
      /\ entry.dev = dev /\ dev # NoDev
      /\ "excl" \notin entry.flags
      /\ "dev" \in entry.flags => dev \in Devices
  BY EntryType, FilesAssumption
<1>2. /\ GetFd \in Fd \ Std /\ ~ InUse(GetFd) /\ GetFd \notin held
      /\ Raised \in 3 .. ALT_MAX_FD - 1
      /\ Raised >= alt_max_fd /\ Raised >= GetFd
  BY GetFdFree DEF FilesInv
<1>3. FilesTypeOK /\ NoneLost /\ Marked /\ DevFlags /\ HolderFirst /\ Startup
  BY DEF FilesInv
<1>4. alt_fd_list' = [alt_fd_list EXCEPT ![f] = entry]
  OBVIOUS
<1> HIDE DEF entry
<1>5. /\ \A g \in Fd \ {f} : alt_fd_list'[g] = alt_fd_list[g]
      /\ alt_fd_list'[f] = entry
  BY <1>3, <1>4 DEF FilesTypeOK
<1>6. /\ \A g \in Fd \ {f} : InUse(g)' <=> InUse(g)
      /\ InUse(f)'
      /\ \A g \in Fd : Excl(g)' => g # f /\ Excl(g)
  BY <1>1, <1>5 DEF InUse, Excl
<1>7. FilesTypeOK'
  <2>1. alt_fd_list' \in [Fd -> [dev : Devices \cup FileSystems \cup {NoDev},
                               flags : SUBSET Flags]]
    BY <1>1, <1>3, <1>4 DEF FilesTypeOK
  <2>2. held' \in SUBSET (Fd \ Std)
    BY <1>2, <1>3 DEF FilesTypeOK
  <2>3. registered' \in SUBSET (Devices \cup FileSystems) /\ phase' \in Phase
    BY <1>3 DEF FilesTypeOK, Phase
  <2> QED
    BY <1>2, <2>1, <2>2, <2>3 DEF FilesTypeOK
<1>8. NoneLost'
  BY <1>2, <1>3, <1>6, FdNumbers DEF NoneLost
<1>9. Marked'
  <2> SUFFICES ASSUME NEW g \in Fd, InUse(g)' PROVE g <= Raised \/ g \in Std
    BY DEF Marked
  <2>1. g \in Int /\ alt_max_fd \in Int
    BY <1>3, FdNumbers, FilesAssumption DEF FilesTypeOK
  <2> QED
    BY <1>2, <1>3, <1>6, <2>1 DEF Marked
<1>10. DevFlags'
  BY <1>1, <1>2, <1>3, <1>5 DEF DevFlags, Excl
<1>11. HolderFirst'
  <2> SUFFICES ASSUME NEW g \in Fd, NEW h \in Fd, SameDev(g, h)', Excl(g)'
               PROVE  g < h
    BY DEF HolderFirst
  <2>1. g # f /\ Excl(g) /\ InUse(g)
    BY <1>6 DEF SameDev
  <2>2. CASE h = f
    BY <1>1, <1>5, <2>1, <2>2, OpensUnheld DEF SameDev
  <2>3. CASE h # f
    BY <1>3, <1>5, <2>1, <2>3 DEF SameDev, HolderFirst
  <2> QED
    BY <2>2, <2>3
<1>12. Startup'
  BY <1>3, <1>6 DEF Startup
<1> QED
  BY <1>7, <1>8, <1>9, <1>10, <1>11, <1>12 DEF FilesInv

\* Only the mark is raised, by an open that fails.
LEMMA RaiseKeeps ==
  ASSUME FilesInv, Available, alt_max_fd' = Raised,
         UNCHANGED <<registered, alt_fd_list, held>>,
         \/ phase' = phase
         \/ phase \notin {"main", "exit"} /\ phase' \in Phase
  PROVE  FilesInv'
<1>1. Raised \in 3 .. ALT_MAX_FD - 1 /\ Raised >= alt_max_fd
  BY GetFdFree DEF FilesInv
<1>2. alt_max_fd \in Int /\ Fd \subseteq Int
  BY FdNumbers, FilesAssumption DEF FilesInv, FilesTypeOK
<1>3. FilesTypeOK'
  BY <1>1 DEF FilesInv, FilesTypeOK
<1>4. Marked'
  BY <1>1, <1>2 DEF FilesInv, Marked, InUse
<1>5. DevFlags'
  <2>1. alt_max_fd' >= 3
    BY <1>1
  <2> QED
    BY <2>1 DEF FilesInv, DevFlags, Excl
<1>6. NoneLost' /\ HolderFirst' /\ Startup'
  BY DEF FilesInv, NoneLost, HolderFirst, Startup, InUse, Excl, SameDev
<1> QED
  BY <1>3, <1>4, <1>5, <1>6 DEF FilesInv

(***************************************************************************)
(* The other operations.                                                   *)
(***************************************************************************)
LEMMA CloseKeeps ==
  ASSUME FilesInv, NEW fd \in Fd, Close(fd)
  PROVE  FilesInv'
<1>1. FilesTypeOK /\ NoneLost /\ Marked /\ DevFlags /\ HolderFirst /\ Startup
  BY DEF FilesInv
<1>2. CASE fd \in Std
  <2>1. UNCHANGED <<phase, registered, alt_fd_list, alt_max_fd, held>>
    BY <1>1, <1>2 DEF Close, FilesTypeOK
  <2> QED
    BY <1>1, <2>1 DEF FilesInv, FilesTypeOK, NoneLost, Marked, DevFlags, HolderFirst, Startup,
                      InUse, Excl, SameDev
<1>3. CASE fd \notin Std
  <2>1. /\ \A g \in Fd \ {fd} : alt_fd_list'[g] = alt_fd_list[g]
        /\ alt_fd_list'[fd] = Free
        /\ phase = "main" /\ UNCHANGED <<phase, registered, alt_max_fd>>
        /\ held' = held \ {fd}
    BY <1>1, <1>3 DEF Close, FilesTypeOK
  <2>2. Free.dev = NoDev /\ Free.flags = {}
    BY DEF Free
  <2>3. /\ \A g \in Fd \ {fd} : (InUse(g)' <=> InUse(g)) /\ (Excl(g)' <=> Excl(g))
        /\ ~ InUse(fd)' /\ ~ Excl(fd)'
    BY <2>1, <2>2 DEF InUse, Excl
  <2>4. FilesTypeOK'
    BY <1>1, <1>3, <2>1 DEF FilesTypeOK, Close, Free
  <2>5. NoneLost'
    BY <1>1, <1>3, <2>1, <2>3 DEF NoneLost
  <2>6. Marked'
    BY <1>1, <2>1, <2>3 DEF Marked
  <2>7. DevFlags'
    BY <1>1, <2>1, <2>2, <2>3 DEF DevFlags
  <2>8. HolderFirst'
    <3> SUFFICES ASSUME NEW f \in Fd, NEW g \in Fd, SameDev(f, g)', Excl(f)'
                 PROVE  f < g
      BY DEF HolderFirst
    <3>1. f # fd /\ g # fd
      BY <2>1, <2>2, <2>3 DEF SameDev, InUse
    <3> QED
      BY <1>1, <2>1, <2>3, <3>1 DEF HolderFirst, SameDev
  <2>9. Startup'
    BY <2>1 DEF Startup
  <2> QED
    BY <2>4, <2>5, <2>6, <2>7, <2>8, <2>9 DEF FilesInv
<1> QED
  BY <1>2, <1>3

\* Flags that change otherwise than by exclusive access.
LEMMA FlagsKeep ==
  ASSUME FilesInv, NEW fd \in Fd, NEW bits \in SUBSET Flags,
         alt_fd_list' = [alt_fd_list EXCEPT ![fd].flags = bits],
         "dev" \in bits <=> "dev" \in alt_fd_list[fd].flags,
         "excl" \in bits => "dev" \in bits,
         "excl" \in bits =>
            Excl(fd) \/ \A h \in Fd : SameDev(fd, h) => fd < h,
         phase = "main", UNCHANGED <<phase, registered, alt_max_fd, held>>
  PROVE  FilesInv'
<1>1. FilesTypeOK /\ NoneLost /\ Marked /\ DevFlags /\ HolderFirst /\ Startup
  BY DEF FilesInv
<1>2. /\ \A g \in Fd \ {fd} : alt_fd_list'[g] = alt_fd_list[g]
      /\ alt_fd_list'[fd].flags = bits
      /\ alt_fd_list'[fd].dev = alt_fd_list[fd].dev
  BY <1>1 DEF FilesTypeOK
<1>3. /\ \A g \in Fd : InUse(g)' <=> InUse(g)
      /\ \A g, h \in Fd : SameDev(g, h)' <=> SameDev(g, h)
      /\ \A g \in Fd \ {fd} : Excl(g)' <=> Excl(g)
      /\ Excl(fd)' <=> "excl" \in bits
  BY <1>2 DEF InUse, SameDev, Excl
<1>4. FilesTypeOK'
  BY <1>1 DEF FilesTypeOK
<1>5. NoneLost' /\ Marked'
  BY <1>1, <1>3 DEF NoneLost, Marked
<1>6. DevFlags'
  BY <1>1, <1>2, <1>3 DEF DevFlags
<1>7. HolderFirst'
  BY <1>1, <1>3 DEF HolderFirst
<1>8. Startup'
  BY DEF Startup
<1> QED
  BY <1>4, <1>5, <1>6, <1>7, <1>8 DEF FilesInv

\* alt_fd_lock: a descriptor it does not see is the one at the mark, which
\* comes after fd.
LEMMA LockKeeps ==
  ASSUME FilesInv, NEW fd \in Fd, Lock(fd)
  PROVE  FilesInv'
<1> DEFINE bits == alt_fd_list[fd].flags \cup {"excl"}
<1>1. bits \in SUBSET Flags
  BY DEF FilesInv, FilesTypeOK, Flags
<1>2. ASSUME NEW h \in Fd, SameDev(fd, h) PROVE fd < h
  <2>1. alt_max_fd \in Int /\ fd \in Int /\ h \in Int
    BY FdNumbers, FilesAssumption DEF FilesInv, FilesTypeOK
  <2>2. alt_max_fd >= 3
    BY DEF Lock, FilesInv, DevFlags
  <2>3. InUse(fd) /\ InUse(h) /\ fd # h
    BY <1>2 DEF SameDev, InUse
  <2>4. fd <= alt_max_fd /\ h <= alt_max_fd
    BY <2>1, <2>2, <2>3 DEF FilesInv, Marked, Std
  <2>5. ~ (h < alt_max_fd)
    BY <1>2, <2>3 DEF Lock, Lockable, SameDev
  <2> QED
    BY <2>1, <2>3, <2>4, <2>5
<1> QED
  BY <1>1, <1>2, FlagsKeep DEF Lock

LEMMA UnlockKeeps ==
  ASSUME FilesInv, NEW fd \in Fd, Unlock(fd)
  PROVE  FilesInv'
<1> DEFINE bits == alt_fd_list[fd].flags \ {"excl"}
<1>1. bits \in SUBSET Flags
  BY DEF FilesInv, FilesTypeOK, Flags
<1> QED
  BY <1>1, FlagsKeep DEF Unlock

LEMMA SetFlagsKeeps ==
  ASSUME FilesInv, NEW fd \in Fd, NEW flags \in SUBSET Flags, SetFlags(fd, flags)
  PROVE  FilesInv'
<1> DEFINE bits == (alt_fd_list[fd].flags \ {"nonblock"}) \cup (flags \cap {"nonblock"})
<1>1. bits \in SUBSET Flags
  BY DEF FilesInv, FilesTypeOK, Flags
<1>2. "excl" \in bits => Excl(fd) /\ "dev" \in alt_fd_list[fd].flags
  BY DEF FilesInv, DevFlags, Excl
<1> QED
  BY <1>1, <1>2, FlagsKeep DEF SetFlags

\* alt_io_redirect.
LEMMA RedirectKeeps ==
  ASSUME FilesInv, NEW fd \in Std, NEW ok \in BOOLEAN, Redirect(fd, ok),
         phase \notin {"main", "exit"}, phase' \in Phase
  PROVE  FilesInv'
<1> DEFINE dev == Stdio[fd]
<1>1. dev \in Devices \cup FileSystems /\ fd \in Fd
  BY FilesAssumption, FdNumbers DEF Std
<1>2. CASE dev \in registered /\ Available /\ Opens(dev, ok)
  <2>1. /\ alt_fd_list' = [alt_fd_list EXCEPT ![fd] = Entry(dev, {})]
        /\ alt_max_fd' = Raised /\ UNCHANGED <<registered, held>>
    BY <1>2 DEF Redirect
  <2> QED
    BY <1>1, <1>2, <2>1, FillKeeps
<1>3. CASE dev \in registered /\ Available /\ ~ Opens(dev, ok)
  <2>1. alt_max_fd' = Raised /\ UNCHANGED <<registered, alt_fd_list, held>>
    BY <1>3 DEF Redirect
  <2> QED
    BY <1>3, <2>1, RaiseKeeps
<1>4. CASE ~ (dev \in registered /\ Available)
  <2>1. UNCHANGED <<registered, alt_fd_list, alt_max_fd, held>>
    BY <1>4 DEF Redirect
  <2> QED
    BY <2>1 DEF FilesInv, FilesTypeOK, NoneLost, Marked, DevFlags, HolderFirst, Startup,
                InUse, Excl, SameDev
<1> QED
  BY <1>2, <1>3, <1>4

(***************************************************************************)
(* The specification.                                                      *)
(***************************************************************************)
LEMMA FilesInvInit == FilesInit => FilesInv
<1> SUFFICES ASSUME FilesInit PROVE FilesInv
  OBVIOUS
<1>1. \A fd \in Fd : /\ alt_fd_list[fd].flags = {}
                     /\ alt_fd_list[fd].dev = IF fd \in Std THEN alt_dev_null ELSE NoDev
  BY DEF FilesInit, Free
<1>2. FilesTypeOK
  BY FilesAssumption DEF FilesInit, FilesTypeOK, Free, Phase, Flags
<1>3. NoneLost /\ Marked
  BY <1>1, FilesAssumption DEF FilesInit, NoneLost, Marked, InUse
<1>4. DevFlags /\ HolderFirst /\ Startup
  BY <1>1 DEF FilesInit, DevFlags, HolderFirst, Startup, Excl
<1> QED
  BY <1>2, <1>3, <1>4 DEF FilesInv

LEMMA FilesInvStep == FilesInv /\ [FilesNext]_filesVars => FilesInv'
<1> SUFFICES ASSUME FilesInv, [FilesNext]_filesVars PROVE FilesInv'
  OBVIOUS
\* A step that leaves the descriptors alone.
<1>1. ASSUME UNCHANGED <<alt_fd_list, alt_max_fd, held>>,
             registered' \in SUBSET (Devices \cup FileSystems), phase' \in Phase,
             phase \in {"main", "exit"} => phase' \in {"main", "exit"}
      PROVE  FilesInv'
  BY <1>1 DEF FilesInv, FilesTypeOK, NoneLost, Marked, DevFlags, HolderFirst, Startup,
              InUse, Excl, SameDev
<1>2. CASE UNCHANGED filesVars
  BY <1>1, <1>2 DEF filesVars, FilesInv, FilesTypeOK
<1>3. CASE SysInitDone \/ MainReturns \/ Spin
  BY <1>1, <1>3 DEF SysInitDone, MainReturns, Spin, filesVars, FilesInv, FilesTypeOK, Phase
<1>4. ASSUME NEW ok \in BOOLEAN, IoRedirect(ok) PROVE FilesInv'
  <2>1. phase \notin {"main", "exit"} /\ phase' \in Phase
    BY <1>4 DEF IoRedirect, Phase
  <2>2. PICK fd \in Std : Redirect(fd, ok)
    BY <1>4 DEF IoRedirect, Std
  <2> QED
    BY <2>1, <2>2, RedirectKeeps
<1>5. ASSUME NEW dev \in Devices \cup FileSystems, RegisterDev(dev) \/ OpenNone(dev)
      PROVE  FilesInv'
  BY <1>1, <1>5 DEF RegisterDev, OpenNone, filesVars, FilesInv, FilesTypeOK
<1>6. ASSUME NEW dev \in Devices \cup FileSystems, NEW ok \in BOOLEAN, OpenFails(dev, ok)
      PROVE  FilesInv'
  <2>1. Available /\ alt_max_fd' = Raised /\ phase' = phase
        /\ UNCHANGED <<registered, alt_fd_list, held>>
    BY <1>6 DEF OpenFails
  <2> QED
    BY <2>1, RaiseKeeps
<1>7. ASSUME NEW dev \in Devices \cup FileSystems, NEW ok \in BOOLEAN,
             NEW flags \in SUBSET Flags, Open(dev, flags, ok)
      PROVE  FilesInv'
  <2>1. GetFd \in Fd
    BY <1>7, GetFdFree DEF Open, FilesInv
  <2>2. /\ Available /\ Opens(dev, ok) /\ UNCHANGED registered
        /\ held' = held \cup {GetFd} /\ phase = "main" /\ phase' = "main"
        /\ alt_fd_list' = [alt_fd_list EXCEPT ![GetFd] = Entry(dev, flags)]
        /\ alt_max_fd' = Raised
    BY <1>7 DEF Open
  <2> QED
    BY <2>1, <2>2, FillKeeps
<1>8. ASSUME NEW fd \in Fd, Close(fd) \/ Lock(fd) \/ Unlock(fd) PROVE FilesInv'
  BY <1>8, CloseKeeps, LockKeeps, UnlockKeeps
<1>9. ASSUME NEW fd \in Fd, NEW flags \in SUBSET Flags, SetFlags(fd, flags) PROVE FilesInv'
  BY <1>9, SetFlagsKeeps
<1> QED
  BY <1>2, <1>3, <1>4, <1>5, <1>6, <1>7, <1>8, <1>9 DEF FilesNext

\* The descriptors keep their types, and the mark its place: alt_get_fd
\* raises it with every descriptor it gives out.
THEOREM FilesTypeCorrect == FilesSpec => []FilesTypeOK
<1>1. FilesSpec => []FilesInv
  BY FilesInvInit, FilesInvStep, PTL DEF FilesSpec
<1> QED
  BY <1>1, PTL DEF FilesInv

\* No path through open, close and the redirection of the standard
\* descriptors loses a descriptor or gives out one that is in use.
THEOREM DescriptorsKept == FilesSpec => []NoneLost
<1>1. FilesSpec => []FilesInv
  BY FilesInvInit, FilesInvStep, PTL DEF FilesSpec
<1> QED
  BY <1>1, PTL DEF FilesInv

\* Exclusive access is exclusive, for pools of every size and any number of
\* devices: of two holders each would have to come first.
THEOREM LockExcludes == FilesSpec => []OneHolder
<1>1. FilesSpec => []FilesInv
  BY FilesInvInit, FilesInvStep, PTL DEF FilesSpec
<1>2. FilesInv => OneHolder
  <2> SUFFICES ASSUME FilesInv, NEW f \in Fd, NEW g \in Fd, SameDev(f, g), Excl(f), Excl(g)
               PROVE  FALSE
    BY DEF OneHolder
  <2>1. SameDev(g, f)
    BY DEF SameDev, InUse
  <2>2. f < g /\ g < f
    BY <2>1 DEF FilesInv, HolderFirst
  <2> QED
    BY <2>2, FdNumbers
<1> QED
  BY <1>1, <1>2, PTL

\* Nobody comes to a device while it is held.
THEOREM LockedOut == FilesSpec => LockedStaysShut
<1> DEFINE Shut == \A f, g \in Fd : Excl(f) /\ SameDev(f, g)' => SameDev(f, g)
<1>1. FilesSpec => []FilesInv
  BY FilesInvInit, FilesInvStep, PTL DEF FilesSpec
<1>2. FilesInv /\ [FilesNext]_filesVars => [Shut]_filesVars
  <2> SUFFICES ASSUME FilesInv, FilesNext, NEW f \in Fd, NEW g \in Fd,
                      Excl(f), SameDev(f, g)'
               PROVE  SameDev(f, g)
    OBVIOUS
  <2>1. ASSUME UNCHANGED alt_fd_list PROVE SameDev(f, g)
    BY <2>1 DEF SameDev, InUse
  \* One entry gets other flags.
  <2>2. ASSUME NEW fd \in Fd, NEW bits, alt_fd_list' = [alt_fd_list EXCEPT ![fd].flags = bits]
        PROVE  SameDev(f, g)
    <3>1. \A h \in Fd : alt_fd_list'[h].dev = alt_fd_list[h].dev
      BY <2>2 DEF FilesInv, FilesTypeOK
    <3> QED
      BY <3>1 DEF SameDev, InUse
  <2>3. ASSUME NEW fd \in Fd, Close(fd) PROVE SameDev(f, g)
    <3>1. CASE fd \in Std
      BY <2>1, <2>3, <3>1 DEF Close
    <3>2. CASE fd \notin Std
      <4>1. /\ \A h \in Fd \ {fd} : alt_fd_list'[h] = alt_fd_list[h]
            /\ alt_fd_list'[fd].dev = NoDev
        BY <2>3, <3>2 DEF Close, Free, FilesInv, FilesTypeOK
      <4>2. f # fd /\ g # fd
        BY <4>1 DEF SameDev, InUse
      <4> QED
        BY <4>1, <4>2 DEF SameDev, InUse
    <3> QED
      BY <3>1, <3>2
  <2>4. ASSUME NEW dev \in Devices \cup FileSystems, NEW ok \in BOOLEAN,
               NEW flags \in SUBSET Flags, Open(dev, flags, ok)
        PROVE  SameDev(f, g)
    <3>1. Available /\ Opens(dev, ok)
          /\ alt_fd_list' = [alt_fd_list EXCEPT ![GetFd] = Entry(dev, flags)]
      BY <2>4 DEF Open
    <3>2. GetFd \in Fd /\ ~ InUse(GetFd)
      BY <3>1, GetFdFree DEF FilesInv
    <3>3. f # GetFd
      <4>1. InUse(f)
        BY FilesAssumption DEF FilesInv, DevFlags, Excl, InUse
      <4> QED
        BY <3>2, <4>1
    <3>4. /\ \A h \in Fd \ {GetFd} : alt_fd_list'[h] = alt_fd_list[h]
          /\ alt_fd_list'[GetFd].dev = dev
      BY <3>1, <3>2, EntryType DEF FilesInv, FilesTypeOK
    <3>5. g # GetFd
      BY <3>1, <3>3, <3>4, OpensUnheld DEF SameDev
    <3> QED
      BY <3>3, <3>4, <3>5 DEF SameDev, InUse
  <2>5. ASSUME NEW ok \in BOOLEAN, IoRedirect(ok) PROVE SameDev(f, g)
    BY <2>5 DEF IoRedirect, FilesInv, Startup
  <2> QED
    BY <2>1, <2>2, <2>3, <2>4, <2>5 DEF FilesNext, filesVars, SysInitDone, MainReturns, Spin,
       RegisterDev, OpenNone, OpenFails, Lock, Unlock, SetFlags
<1> QED
  BY <1>1, <1>2, PTL DEF FilesSpec, LockedStaysShut

(***************************************************************************)
(* Alarms.                                                                 *)
(***************************************************************************)

\* The alarm time of an alarm in the list: the flag says that the counter has
\* to roll over first.  The walk after a roll-over has still to clear it.
Kept(a) ==
  IF a \in todo \cup {alarm} /\ nticks = 0 THEN time[a] = due[a]
  ELSE IF rollover[a] THEN time[a] + M = nticks + due[a]
  ELSE time[a] = nticks + due[a]

Listing ==
  ~ Stuck => \A a \in listed : Kept(a) /\ (a \notin todo \cup {alarm} => due[a] > 0)

\* The entries before the walk are in the list, and the next one is the first
\* of them, unless a callback has taken it out.
Walking ==
  /\ todo \subseteq listed
  /\ alarm = ListHead => todo = {} /\ next = ListHead
  /\ Stuck => next = alarm
  /\ alarm \in listed =>
       /\ next # alarm
       /\ \/ next \in todo
          \/ todo = {} /\ next = ListHead
          \/ next \notin listed \cup {ListHead}

TimerInv == TimerTypeOK /\ Listing /\ Walking

\* As long as no callback stops the next entry, it is in the list, and the
\* current one is not before the walk again.
Going == ~ Stuck /\ alarm \notin todo /\ (alarm # ListHead => next \in todo \cup {ListHead})

-----------------------------------------------------------------------------
\* A sum of two 32-bit numbers in 32 bits.
LEMMA Wrap ==
  ASSUME NEW n \in Nat, n < M + M
  PROVE  n % M = IF n < M THEN n ELSE n - M
<1>1. M \in Nat /\ M > 0
  BY TimerAssumption
<1>2. CASE n < M
  BY <1>1, <1>2
<1>3. CASE ~ (n < M)
  BY <1>1, <1>3
<1> QED
  BY <1>2, <1>3

\* A period or a delay added to the counter, and the flag beside it.
LEMMA Ahead ==
  ASSUME nticks \in 0 .. M - 1, NEW n \in 1 .. M - 1
  PROVE  LET t == (nticks + n) % M
         IN  /\ t \in 0 .. M - 1
             /\ IF RollsOver(t) THEN t + M = nticks + n ELSE t = nticks + n
<1>1. M \in Nat /\ nticks + n \in Nat /\ nticks + n < M + M
  BY TimerAssumption
<1>2. (nticks + n) % M = IF nticks + n < M THEN nticks + n ELSE nticks + n - M
  BY <1>1, Wrap
<1>3. CASE nticks + n < M
  <2>1. (nticks + n) % M = nticks + n
    BY <1>2, <1>3
  <2> QED
    BY <1>1, <1>3, <2>1 DEF RollsOver
<1>4. CASE ~ (nticks + n < M)
  <2>1. (nticks + n) % M = nticks + n - M
    BY <1>2, <1>4
  <2> QED
    BY <1>1, <1>4, <2>1 DEF RollsOver
<1> QED
  BY <1>3, <1>4

\* Where the walk comes to an alarm, its flag and its time tell if it is due.
LEMMA ExpiredDue ==
  ASSUME TimerTypeOK, NEW a \in listed, Kept(a), a \in todo \cup {alarm}
  PROVE  /\ Expired(a) <=> due[a] = 0
         /\ Expired(a) => time[a] = nticks
         /\ ~ Expired(a) =>
              IF Rolls(a) THEN time[a] + M = nticks + due[a] ELSE time[a] = nticks + due[a]
<1>1. /\ M \in Nat /\ nticks \in 0 .. M - 1 /\ time[a] \in 0 .. M - 1
      /\ due[a] \in 0 .. M - 1 /\ rollover[a] \in BOOLEAN
  BY TimerAssumption DEF TimerTypeOK
<1>2. CASE nticks = 0
  BY <1>1, <1>2 DEF Kept, Expired, Rolls
<1>3. CASE nticks # 0 /\ rollover[a]
  BY <1>1, <1>3 DEF Kept, Expired, Rolls
<1>4. CASE nticks # 0 /\ ~ rollover[a]
  BY <1>1, <1>4 DEF Kept, Expired, Rolls
<1> QED
  BY <1>1, <1>2, <1>3, <1>4

-----------------------------------------------------------------------------
\* An alarm whose flag and time agree with its ticks agrees with them at the
\* roll-over too, where the flag is not looked at.
LEMMA KeptEverywhere ==
  ASSUME nticks \in 0 .. M - 1, NEW a \in Alarms,
         time[a] \in 0 .. M - 1, due[a] \in 0 .. M - 1,
         IF rollover[a] THEN time[a] + M = nticks + due[a] ELSE time[a] = nticks + due[a]
  PROVE  Kept(a)
<1>1. M \in Nat
  BY TimerAssumption
<1> QED
  BY <1>1 DEF Kept

\* An alarm is put into the list.
LEMMA StartedKeeps ==
  ASSUME TimerInv, NEW a \in Alarms, NEW delay \in Delays, Started(a, delay), a # alarm
  PROVE  TimerInv'
<1>1. /\ delay + 1 \in 1 .. M - 1 /\ nticks \in 0 .. M - 1 /\ M \in Nat /\ delay \in Int
      /\ a \notin listed /\ ListHead \notin Alarms
      /\ listed \subseteq Alarms /\ todo \subseteq Alarms
      /\ time \in [Alarms -> 0 .. M - 1] /\ due \in [Alarms -> 0 .. M - 1]
      /\ rollover \in [Alarms -> BOOLEAN]
  BY TimerAssumption DEF TimerInv, TimerTypeOK, Started
<1>2. Alarm(delay) = (nticks + (delay + 1)) % M
  <2>1. delay + nticks + 1 = nticks + (delay + 1)
    BY <1>1
  <2> QED
    BY <2>1 DEF Alarm
<1>3. /\ Alarm(delay) \in 0 .. M - 1
      /\ IF RollsOver(Alarm(delay)) THEN Alarm(delay) + M = nticks + (delay + 1)
                                    ELSE Alarm(delay) = nticks + (delay + 1)
  BY <1>1, <1>2, Ahead
<1>4. /\ time'[a] = Alarm(delay) /\ rollover'[a] = RollsOver(Alarm(delay)) /\ due'[a] = delay + 1
      /\ \A b \in listed : time'[b] = time[b] /\ rollover'[b] = rollover[b] /\ due'[b] = due[b]
  BY <1>1 DEF Started
<1>5. /\ listed' = listed \cup {a} /\ todo' = (IF a = next THEN listed' ELSE todo)
      /\ UNCHANGED <<tick_rate, nticks, alarm, next>>
  BY DEF Started
<1>6. TimerTypeOK'
  <2>1. time' \in [Alarms -> 0 .. M - 1] /\ due' \in [Alarms -> 0 .. M - 1]
    BY <1>1, <1>3 DEF Started
  <2>2. rollover' \in [Alarms -> BOOLEAN]
    BY <1>1 DEF Started, RollsOver
  <2> QED
    BY <1>1, <1>5, <2>1, <2>2 DEF TimerInv, TimerTypeOK
<1>7. Stuck' <=> Stuck
  BY <1>5 DEF Stuck
<1>8. Kept(a)' /\ due'[a] > 0
  BY <1>1, <1>3, <1>4, <1>5 DEF Kept
<1>9. ASSUME ~ Stuck, NEW b \in listed
      PROVE  Kept(b)' /\ (b \notin todo' \cup {alarm'} => due'[b] > 0)
  <2>1. Kept(b) /\ (b \notin todo \cup {alarm} => due[b] > 0)
    BY <1>9 DEF TimerInv, Listing
  <2>2. todo \subseteq todo'
    BY <1>5 DEF TimerInv, Walking
  <2>3. time[b] \in 0 .. M - 1 /\ due[b] \in 0 .. M - 1
    BY <1>1
  <2>4. Kept(b)'
    BY <1>1, <1>4, <1>5, <2>1, <2>2, <2>3 DEF Kept
  <2> QED
    BY <1>4, <1>5, <2>1, <2>2, <2>4
<1>10. Listing'
  BY <1>5, <1>7, <1>8, <1>9 DEF Listing
<1>11. Walking'
  BY <1>1, <1>5, <1>7 DEF Walking, TimerInv
<1> QED
  BY <1>6, <1>10, <1>11 DEF TimerInv

\* An alarm other than the current one is taken out of it.
LEMMA StoppedKeeps ==
  ASSUME TimerInv, NEW a \in Alarms, a # alarm, Stopped(a)
  PROVE  TimerInv'
<1>1. /\ ListHead \notin Alarms /\ (Stuck' <=> Stuck)
      /\ listed' = listed \ {a} /\ todo' = todo \ {a}
      /\ UNCHANGED <<tick_rate, nticks, time, rollover, alarm, next, due>>
  BY TimerAssumption DEF Stopped, Stuck
<1>2. TimerTypeOK'
  BY <1>1 DEF TimerInv, TimerTypeOK
<1>3. Walking'
  BY <1>1 DEF TimerInv, TimerTypeOK, Walking
<1>4. Listing'
  BY <1>1 DEF TimerInv, Listing, Kept
<1> QED
  BY <1>2, <1>3, <1>4 DEF TimerInv

-----------------------------------------------------------------------------
\* The walk comes to the first of the entries ahead, to the end of the list,
\* or to an entry that has been taken out.
LEMMA ComesToWalks ==
  ASSUME NEW entry \in Alarms \cup {ListHead}, NEW ahead \in SUBSET listed',
         listed' \subseteq Alarms, ComesTo(entry, ahead),
         \/ entry \in ahead
         \/ entry = ListHead /\ ahead = {}
         \/ entry \notin listed' \cup {ListHead}
  PROVE  /\ Walking'
         /\ alarm' \in Alarms \cup {ListHead} /\ next' \in Alarms \cup {ListHead}
         /\ todo' \in SUBSET Alarms
<1>1. ListHead \notin Alarms /\ alarm' = entry
  BY TimerAssumption DEF ComesTo
<1>2. CASE entry \in listed'
  <2>1. todo' = ahead \ {entry} /\ next' \in (IF todo' = {} THEN {ListHead} ELSE todo')
    BY <1>2 DEF ComesTo
  <2> QED
    BY <1>1, <1>2, <2>1 DEF Walking, Stuck
<1>3. CASE entry \notin listed'
  <2>1. todo' = {} /\ next' = entry
    BY <1>3 DEF ComesTo
  <2> QED
    BY <1>1, <1>3, <2>1 DEF Walking, Stuck
<1> QED
  BY <1>2, <1>3

LEMMA TickKeeps ==
  ASSUME TimerInv, Tick
  PROVE  TimerInv'
<1>1. /\ M \in Nat /\ nticks \in 0 .. M - 1 /\ todo = {} /\ alarm = ListHead
      /\ ListHead \notin Alarms /\ listed \subseteq Alarms /\ listed' = listed
  BY TimerAssumption DEF Tick, TimerInv, TimerTypeOK, Walking
<1>2. nticks' = IF nticks + 1 < M THEN nticks + 1 ELSE nticks + 1 - M
  BY <1>1, Wrap DEF Tick
<1>3. \A a \in listed : Kept(a) /\ due[a] > 0
  BY <1>1 DEF TimerInv, Listing, Stuck
<1>4. \A a \in listed : due[a] \in 1 .. M - 1 /\ due'[a] = due[a] - 1
  BY <1>1, <1>3 DEF Tick, TimerInv, TimerTypeOK
<1>5. PICK first \in IF listed = {} THEN {ListHead} ELSE listed : ComesTo(first, listed)
  BY DEF Tick
<1>6. /\ Walking'
      /\ alarm' \in Alarms \cup {ListHead} /\ next' \in Alarms \cup {ListHead}
      /\ todo' \in SUBSET Alarms
  <2>1. first \in listed \/ (first = ListHead /\ listed = {})
    BY <1>5
  <2> QED
    BY <1>1, <1>5, <2>1, ComesToWalks
<1>7. TimerTypeOK'
  <2>1. nticks' \in 0 .. M - 1
    BY <1>1, <1>2
  <2>2. \A a \in listed : due[a] - 1 \in 0 .. M - 1
    BY <1>1, <1>4
  <2>3. \A a \in Alarms : due[a] \in 0 .. M - 1
    BY DEF TimerInv, TimerTypeOK
  <2>4. due' = [a \in Alarms |-> IF a \in listed THEN due[a] - 1 ELSE due[a]]
    BY DEF Tick
  <2>5. due' \in [Alarms -> 0 .. M - 1]
    BY <2>2, <2>3, <2>4
  <2> QED
    BY <1>1, <1>6, <2>1, <2>5 DEF Tick, TimerInv, TimerTypeOK
<1>8. \A a \in listed : a \in todo' \cup {alarm'}
  BY <1>1, <1>5 DEF ComesTo
<1>9. ASSUME NEW a \in listed PROVE Kept(a)'
  <2>1. /\ time[a] \in 0 .. M - 1 /\ rollover[a] \in BOOLEAN /\ time'[a] = time[a]
        /\ rollover'[a] = rollover[a] /\ due[a] \in 1 .. M - 1 /\ due'[a] = due[a] - 1
        /\ IF rollover[a] THEN time[a] + M = nticks + due[a] ELSE time[a] = nticks + due[a]
    BY <1>1, <1>3, <1>4 DEF Tick, TimerInv, TimerTypeOK, Kept
  <2>2. CASE nticks + 1 < M
    <3>1. nticks' = nticks + 1 /\ nticks' # 0
      BY <1>1, <1>2, <2>2
    <3> QED
      BY <1>1, <2>1, <3>1 DEF Kept
  <2>3. CASE nticks + 1 = M
    <3>1. nticks' = 0
      BY <1>1, <1>2, <2>3
    <3>2. time[a] = due[a] - 1
      BY <1>1, <2>1, <2>3
    <3> QED
      BY <1>8, <2>1, <3>1, <3>2 DEF Kept
  <2> QED
    BY <1>1, <2>2, <2>3
<1>10. Listing'
  BY <1>1, <1>8, <1>9 DEF Listing
<1> QED
  BY <1>6, <1>7, <1>10 DEF TimerInv

\* The walk goes on to the next entry, with the entries ahead that are still
\* in the list.
LEMMA GoesOn ==
  ASSUME TimerInv, alarm # ListHead, listed' \subseteq listed, listed \ {alarm} \subseteq listed',
         ComesTo(next, todo \cap listed')
  PROVE  /\ Walking'
         /\ alarm' \in Alarms \cup {ListHead} /\ next' \in Alarms \cup {ListHead}
         /\ todo' \in SUBSET Alarms
         /\ Stuck => Stuck'
         /\ ~ Stuck' => alarm \in listed /\ alarm' # alarm
         /\ ~ Stuck' => \A a \in listed' \ {alarm} :
                           a \in todo' \cup {alarm'} <=> a \in todo \cup {alarm}
<1>1. /\ ListHead \notin Alarms /\ alarm \in Alarms /\ next \in Alarms \cup {ListHead}
      /\ listed \subseteq Alarms /\ todo \subseteq listed
  BY TimerAssumption DEF TimerInv, TimerTypeOK, Walking
<1>2. \/ next \in todo \cap listed'
      \/ next = ListHead /\ todo = {}
      \/ next \notin listed \cup {ListHead}
  <2>1. CASE Stuck
    BY <2>1, <1>1 DEF TimerInv, Walking, Stuck
  <2>2. CASE ~ Stuck
    <3>1. alarm \in listed
      BY <2>2, <1>1 DEF Stuck
    <3> QED
      BY <1>1, <3>1 DEF TimerInv, Walking
  <2> QED
    BY <2>1, <2>2
<1>3. /\ Walking'
      /\ alarm' \in Alarms \cup {ListHead} /\ next' \in Alarms \cup {ListHead}
      /\ todo' \in SUBSET Alarms
  <2> DEFINE ahead == todo \cap listed'
  <2>1. ahead \in SUBSET listed' /\ listed' \subseteq Alarms
    BY <1>1
  <2>2. next \in ahead \/ (next = ListHead /\ ahead = {}) \/ next \notin listed' \cup {ListHead}
    BY <1>2
  <2>3. ComesTo(next, ahead)
    OBVIOUS
  <2> HIDE DEF ahead
  <2> QED
    BY <1>1, <2>1, <2>2, <2>3, ComesToWalks
<1>4. alarm' = next
  BY DEF ComesTo
<1>5. Stuck => Stuck'
  BY <1>4 DEF TimerInv, Walking, Stuck
<1>6. ASSUME ~ Stuck' PROVE alarm \in listed /\ alarm' # alarm
  BY <1>1, <1>4, <1>5, <1>6 DEF TimerInv, Walking, Stuck
<1>7. ASSUME ~ Stuck', NEW a \in listed' \ {alarm}
      PROVE  a \in todo' \cup {alarm'} <=> a \in todo \cup {alarm}
  <2>1. next \in listed' => todo' = (todo \cap listed') \ {next}
    BY DEF ComesTo
  <2>2. next \notin listed' => next = ListHead /\ todo' = {}
    BY <1>4, <1>7 DEF ComesTo, Stuck
  <2>3. next \in listed' => next \in todo
    BY <1>1, <1>2
  <2>4. next = ListHead => todo = {}
    BY <1>1, <1>2
  <2> QED
    BY <1>1, <1>4, <2>1, <2>2, <2>3, <2>4
<1> QED
  BY <1>3, <1>5, <1>6, <1>7

LEMMA PassKeeps ==
  ASSUME TimerInv, Pass
  PROVE  TimerInv'
<1>1. listed' = listed /\ todo \subseteq listed /\ alarm # ListHead
  BY DEF Pass, TimerInv, Walking
<1>2. ComesTo(next, todo \cap listed')
  <2>1. todo \cap listed' = todo
    BY <1>1
  <2> QED
    BY <2>1 DEF Pass
<1>3. /\ Walking'
      /\ alarm' \in Alarms \cup {ListHead} /\ next' \in Alarms \cup {ListHead}
      /\ todo' \in SUBSET Alarms
      /\ Stuck => Stuck'
      /\ ~ Stuck' => alarm \in listed /\ alarm' # alarm
      /\ ~ Stuck' => \A a \in listed' \ {alarm} :
                        a \in todo' \cup {alarm'} <=> a \in todo \cup {alarm}
  BY <1>1, <1>2, GoesOn
<1>4. TimerTypeOK'
  BY <1>3 DEF Pass, TimerInv, TimerTypeOK, Rolls
<1>5. ASSUME ~ Stuck', NEW a \in listed
      PROVE  Kept(a)' /\ (a \notin todo' \cup {alarm'} => due'[a] > 0)
  <2>1. /\ time'[a] = time[a] /\ due'[a] = due[a] /\ nticks' = nticks /\ a \in Alarms
        /\ rollover' = [rollover EXCEPT ![alarm] = Rolls(alarm)]
        /\ rollover \in [Alarms -> BOOLEAN]
    BY DEF Pass, TimerInv, TimerTypeOK
  <2>2. ~ Stuck /\ Kept(a)
    BY <1>3, <1>5 DEF TimerInv, Listing
  <2>3. CASE a = alarm
    <3>1. /\ due[a] \in 0 .. M - 1 /\ time[a] \in 0 .. M - 1 /\ nticks \in 0 .. M - 1
          /\ ~ Expired(a) /\ rollover'[a] = Rolls(a)
      BY <2>1, <2>3 DEF Pass, TimerInv, TimerTypeOK
    <3>2. /\ due[a] # 0
          /\ IF Rolls(a) THEN time[a] + M = nticks + due[a] ELSE time[a] = nticks + due[a]
      BY <2>2, <2>3, <3>1, ExpiredDue DEF TimerInv
    <3>3. IF rollover'[a] THEN time'[a] + M = nticks' + due'[a] ELSE time'[a] = nticks' + due'[a]
      BY <2>1, <3>1, <3>2
    <3>4. M \in Nat
      BY TimerAssumption
    <3>5. Kept(a)'
      BY <2>1, <3>1, <3>3, <3>4 DEF Kept
    <3> QED
      BY <2>1, <3>1, <3>2, <3>5
  <2>4. CASE a # alarm
    <3>1. rollover'[a] = rollover[a] /\ (a \in todo' \cup {alarm'} <=> a \in todo \cup {alarm})
      BY <2>1, <2>4, <1>1, <1>3, <1>5
    <3> QED
      BY <2>1, <2>2, <3>1 DEF TimerInv, Listing, Kept
  <2> QED
    BY <2>3, <2>4
<1>6. Listing'
  BY <1>1, <1>5 DEF Listing
<1> QED
  BY <1>3, <1>4, <1>6 DEF TimerInv

LEMMA CallbackKeeps ==
  ASSUME TimerInv, NEW period \in Periods \cup {0}, Callback(period)
  PROVE  TimerInv'
<1>1. /\ nticks \in 0 .. M - 1 /\ period \in 0 .. M - 1 /\ M \in Nat \ {0}
      /\ alarm # ListHead /\ alarm \in Alarms
      /\ listed' \subseteq listed /\ listed \ {alarm} \subseteq listed'
      /\ alarm \in listed' => period # 0
  BY TimerAssumption DEF TimerInv, TimerTypeOK, Callback, Answer
<1>2. /\ Walking'
      /\ alarm' \in Alarms \cup {ListHead} /\ next' \in Alarms \cup {ListHead}
      /\ todo' \in SUBSET Alarms
      /\ Stuck => Stuck'
      /\ ~ Stuck' => alarm \in listed /\ alarm' # alarm
      /\ ~ Stuck' => \A a \in listed' \ {alarm} :
                        a \in todo' \cup {alarm'} <=> a \in todo \cup {alarm}
  BY <1>1, GoesOn DEF Callback
<1>3. /\ time' = [time EXCEPT ![alarm] = (time[alarm] + period) % M]
      /\ due' = [due EXCEPT ![alarm] = period]
      /\ rollover' = [rollover EXCEPT ![alarm] = period # 0 /\ RollsOver(time'[alarm])]
      /\ UNCHANGED <<tick_rate, nticks>>
      /\ time \in [Alarms -> 0 .. M - 1] /\ due \in [Alarms -> 0 .. M - 1]
      /\ rollover \in [Alarms -> BOOLEAN] /\ listed \in SUBSET Alarms
  BY DEF Callback, Answer, TimerInv, TimerTypeOK
<1>4. (time[alarm] + period) % M \in 0 .. M - 1
  <2>1. time[alarm] \in 0 .. M - 1
    BY <1>1, <1>3
  <2>2. time[alarm] + period \in Nat /\ time[alarm] + period < M + M
    BY <1>1, <2>1
  <2> QED
    BY <1>1, <2>2, Wrap
<1>5. TimerTypeOK'
  <2>1. time' \in [Alarms -> 0 .. M - 1] /\ due' \in [Alarms -> 0 .. M - 1]
    BY <1>1, <1>3, <1>4
  <2>2. rollover' \in [Alarms -> BOOLEAN]
    BY <1>1, <1>3 DEF RollsOver
  <2> QED
    BY <1>1, <1>2, <1>3, <2>1, <2>2 DEF TimerInv, TimerTypeOK
<1>6. ASSUME ~ Stuck', NEW a \in listed'
      PROVE  Kept(a)' /\ (a \notin todo' \cup {alarm'} => due'[a] > 0)
  <2>1. ~ Stuck /\ a \in listed /\ Kept(a)
    BY <1>1, <1>2, <1>6 DEF TimerInv, Listing
  <2>2. CASE a = alarm
    <3>1. period \in 1 .. M - 1
      BY <1>1, <1>6, <2>2
    <3>2. time[alarm] = nticks
      BY <2>1, <2>2, ExpiredDue DEF Callback, Answer, TimerInv
    <3>3. IF RollsOver((nticks + period) % M) THEN ((nticks + period) % M) + M = nticks + period
                                              ELSE (nticks + period) % M = nticks + period
      BY <1>1, <3>1, Ahead
    <3>4. /\ time'[alarm] = (nticks + period) % M /\ due'[alarm] = period /\ nticks' = nticks
          /\ rollover'[alarm] <=> (period # 0 /\ RollsOver(time'[alarm]))
      BY <1>1, <1>3, <3>2
    <3>5. period # 0 /\ period > 0
      BY <3>1
    <3>6. rollover'[alarm] <=> RollsOver((nticks + period) % M)
      BY <3>4, <3>5, Zenon
    <3>7. IF rollover'[alarm] THEN time'[alarm] + M = nticks' + due'[alarm]
                              ELSE time'[alarm] = nticks' + due'[alarm]
      BY <3>3, <3>4, <3>6
    <3>8. time'[alarm] \in 0 .. M - 1
      BY <1>4, <3>2, <3>4
    <3>9. Kept(a)'
      BY <1>1, <2>2, <3>1, <3>4, <3>7, <3>8 DEF Kept
    <3> QED
      BY <2>2, <3>4, <3>5, <3>9
  <2>3. CASE a # alarm
    <3>1. /\ time'[a] = time[a] /\ rollover'[a] = rollover[a] /\ due'[a] = due[a]
          /\ (a \in todo' \cup {alarm'} <=> a \in todo \cup {alarm})
      BY <1>2, <1>3, <1>6, <2>1, <2>3
    <3> QED
      BY <1>3, <2>1, <3>1 DEF TimerInv, Listing, Kept
  <2> QED
    BY <2>2, <2>3
<1> QED
  BY <1>2, <1>5, <1>6 DEF TimerInv, Listing

-----------------------------------------------------------------------------
LEMMA TimerInvInit == TimerInit => TimerInv
  BY TimerAssumption DEF TimerInit, TimerInv, TimerTypeOK, Listing, Walking, Stuck

LEMMA TimerInvStep == TimerInv /\ [TimerNext]_timerVars => TimerInv'
<1> SUFFICES ASSUME TimerInv, [TimerNext]_timerVars PROVE TimerInv'
  OBVIOUS
<1>1. ASSUME UNCHANGED <<nticks, alarmVars>>, tick_rate' \in {0, Rate} PROVE TimerInv'
  BY <1>1 DEF alarmVars, TimerInv, TimerTypeOK, Listing, Kept, Walking, Stuck
<1>2. CASE UNCHANGED timerVars
  BY <1>1, <1>2 DEF timerVars, TimerInv, TimerTypeOK
<1>3. CASE SysclkInit \/ \E t \in Times : SetTimeOfDay(t)
  BY <1>1, <1>3 DEF SysclkInit, SetTimeOfDay, TimerInv, TimerTypeOK
<1>4. CASE Tick /\ WallTick
  BY <1>4, TickKeeps
<1>5. CASE Pass
  BY <1>5, PassKeeps
<1>6. CASE \E period \in Periods \cup {0} : Callback(period)
  BY <1>6, CallbackKeeps
<1>7. ASSUME NEW a \in Alarms, AlarmStop(a) \/ StopInCallback(a) PROVE TimerInv'
  BY <1>7, StoppedKeeps, TimerAssumption DEF AlarmStop, StopInCallback
<1>8. ASSUME NEW a \in Alarms, NEW delay \in Delays, AlarmStart(a, delay) \/ StartInCallback(a, delay)
      PROVE  TimerInv'
  BY <1>8, StartedKeeps, TimerAssumption DEF AlarmStart, StartInCallback
<1> QED
  BY <1>2, <1>3, <1>4, <1>5, <1>6, <1>7, <1>8 DEF TimerNext

\* The counter and the alarm times stay within their bits, also where a
\* callback stops the next alarm.
THEOREM TimerTypeCorrect == TimerSpec => []TimerTypeOK
<1>1. TimerSpec => []TimerInv
  BY TimerInvInit, TimerInvStep, PTL DEF TimerSpec
<1> QED
  BY <1>1, PTL DEF TimerInv

\* Once alt_tick has come to an entry that a callback has taken out of the
\* list, which points to itself, it stays at that entry: what other alarms
\* are started or stopped by its callback does not bring it on.
StaysHeld == [][Stuck => Stuck' /\ alarm' = alarm]_timerVars

THEOREM WalkHeld == TimerSpec => StaysHeld
<1>1. TimerSpec => []TimerInv
  BY TimerInvInit, TimerInvStep, PTL DEF TimerSpec
<1>2. TimerInv /\ [TimerNext]_timerVars => [Stuck => Stuck' /\ alarm' = alarm]_timerVars
  <2> SUFFICES ASSUME TimerInv, TimerNext, Stuck
               PROVE  Stuck' /\ alarm' = alarm
    OBVIOUS
  <2>1. alarm # ListHead /\ next = alarm
    BY DEF TimerInv, Walking, Stuck
  <2>2. CASE Pass \/ \E period \in Periods \cup {0} : Callback(period)
    BY <2>1, <2>2 DEF Pass, Callback, Answer, ComesTo, Stuck
  <2>3. CASE \E a \in Alarms : AlarmStop(a) \/ StopInCallback(a)
    BY <2>1, <2>3 DEF AlarmStop, StopInCallback, Stopped, Stuck
  <2>4. CASE \E a \in Alarms, delay \in Delays : AlarmStart(a, delay) \/ StartInCallback(a, delay)
    BY <2>1, <2>4 DEF AlarmStart, StartInCallback, Started, Stuck
  <2>5. CASE SysclkInit \/ \E t \in Times : SetTimeOfDay(t)
    BY <2>5 DEF SysclkInit, SetTimeOfDay, alarmVars, Stuck
  <2>6. ~ Tick
    BY <2>1 DEF Tick
  <2> QED
    BY <2>2, <2>3, <2>4, <2>5, <2>6 DEF TimerNext
<1> QED
  BY <1>1, <1>2, PTL DEF TimerSpec, StaysHeld

-----------------------------------------------------------------------------
\* The entries alt_tick has still to come to, with the one it is at.
Left == (todo \cup {alarm}) \ {ListHead}

\* Each entry the walk of a tick comes to is one it has not been at in this
\* tick, and none is put before it: so a callback runs at most once a tick,
\* and a walk over finitely many alarms cannot go on for ever.
WalkGoesOn ==
  [][alarm # ListHead =>
       Left' \subseteq Left /\ (Walk => alarm \in Left \ Left')]_timerVars

\* What a step does to a walk when no callback stops the next entry.
LEMMA GoingStep ==
  ASSUME ~ StopsNext, TimerInv, Going, [TimerNext]_timerVars
  PROVE  /\ Going'
         /\ alarm # ListHead =>
              \/ UNCHANGED <<alarm, todo>>
              \/ alarm' = alarm /\ todo' \subseteq todo /\ ~ Walk
              \/ alarm' = next /\ todo' \subseteq todo
<1>1. /\ ListHead \notin Alarms /\ todo \subseteq listed /\ listed \subseteq Alarms
      /\ alarm = ListHead => todo = {} /\ next = ListHead
      /\ alarm \in listed \cup {ListHead} /\ alarm \notin todo
      /\ alarm # ListHead => next \in todo \cup {ListHead} /\ (next = ListHead => todo = {})
  BY TimerAssumption DEF TimerInv, TimerTypeOK, Walking, Going, Stuck
<1>2. ASSUME UNCHANGED alarmVars PROVE Going'
  BY <1>2 DEF alarmVars, Going, Stuck
<1>3. CASE UNCHANGED timerVars \/ SysclkInit \/ \E t \in Times : SetTimeOfDay(t)
  BY <1>2, <1>3 DEF timerVars, SysclkInit, SetTimeOfDay, alarmVars
<1>4. CASE Tick
  <2>1. PICK first \in IF listed = {} THEN {ListHead} ELSE listed : ComesTo(first, listed)
    BY <1>4 DEF Tick
  <2>2. listed' = listed /\ alarm = ListHead
    BY <1>4 DEF Tick
  <2> QED
    BY <1>1, <2>1, <2>2 DEF ComesTo, Going, Stuck
<1>5. CASE Walk
  <2>1. /\ alarm # ListHead /\ ComesTo(next, todo \cap listed')
        /\ listed' \subseteq listed /\ listed \ {alarm} \subseteq listed'
    <3>1. CASE Pass
      <4>1. listed' = listed /\ todo \cap listed' = todo
        BY <1>1, <3>1 DEF Pass
      <4> QED
        BY <3>1, <4>1 DEF Pass
    <3>2. CASE \E period \in Periods \cup {0} : Callback(period)
      BY <3>2 DEF Callback, Answer
    <3> QED
      BY <1>5, <3>1, <3>2 DEF Walk
  <2>2. next \in (todo \cap listed') \cup {ListHead} /\ todo \cap listed' = todo
    BY <1>1, <2>1
  <2>3. alarm' = next /\ todo' \subseteq todo /\ next \notin todo'
    BY <1>1, <2>1, <2>2 DEF ComesTo
  <2>4. ~ Stuck'
    BY <2>2, <2>3 DEF Stuck
  <2>5. alarm' # ListHead => next' \in todo' \cup {ListHead}
    BY <2>1, <2>2, <2>3 DEF ComesTo
  <2> QED
    BY <2>3, <2>4, <2>5 DEF Going
<1>6. ASSUME NEW a \in Alarms, AlarmStop(a) \/ StopInCallback(a)
      PROVE  /\ Going'
             /\ alarm # ListHead => alarm' = alarm /\ todo' \subseteq todo /\ ~ Walk
  <2>1. /\ a # alarm /\ a # next
        /\ listed' = listed \ {a} /\ todo' = todo \ {a} /\ UNCHANGED <<alarm, next>>
    BY <1>1, <1>6 DEF AlarmStop, StopInCallback, Stopped
  <2>2. Going'
    BY <1>1, <2>1 DEF Going, Stuck
  <2>3. alarm # ListHead => ~ Walk
    <3> SUFFICES ASSUME alarm # ListHead, Walk PROVE FALSE
      OBVIOUS
    <3>1. alarm' = next
      BY DEF Walk, Pass, Callback, ComesTo
    <3> QED
      BY <1>1, <2>1, <3>1
  <2> QED
    BY <2>1, <2>2, <2>3
<1>7. ASSUME NEW a \in Alarms, NEW delay \in Delays, AlarmStart(a, delay) \/ StartInCallback(a, delay)
      PROVE  Going' /\ (alarm # ListHead => UNCHANGED <<alarm, todo>>)
  <2>1. /\ a \notin listed /\ a # next /\ listed' = listed \cup {a} /\ todo' = todo
        /\ UNCHANGED <<alarm, next>>
    BY <1>1, <1>7 DEF AlarmStart, StartInCallback, Started
  <2> QED
    BY <1>1, <2>1 DEF Going, Stuck
<1> QED
  BY <1>3, <1>4, <1>5, <1>6, <1>7 DEF TimerNext, Walk, Tick

LEMMA AlwaysGoing ==
  ASSUME ~ StopsNext
  PROVE  TimerSpec => [](TimerInv /\ Going)
<1>1. TimerInit => TimerInv /\ Going
  BY TimerInvInit DEF TimerInit, Going, Stuck
<1>2. TimerInv /\ Going /\ [TimerNext]_timerVars => (TimerInv /\ Going)'
  BY TimerInvStep, GoingStep
<1> QED
  BY <1>1, <1>2, PTL DEF TimerSpec

\* As long as no callback stops the entry alt_tick has read as the next, the
\* entries before its walk only ever get fewer, and every step of its own
\* takes the current one: no other order of callbacks, starts and stops
\* holds the walk or sends it back.
THEOREM WalkDescends ==
  ASSUME ~ StopsNext
  PROVE  TimerSpec => WalkGoesOn
<1> DEFINE Goes == alarm # ListHead => Left' \subseteq Left /\ (Walk => alarm \in Left \ Left')
<1>1. TimerSpec => [](TimerInv /\ Going)
  BY AlwaysGoing
<1>2. TimerInv /\ Going /\ [TimerNext]_timerVars => [Goes]_timerVars
  <2> SUFFICES ASSUME TimerInv, Going, TimerNext, alarm # ListHead
               PROVE  Left' \subseteq Left /\ (Walk => alarm \in Left \ Left')
    OBVIOUS
  <2>1. next \in todo \cup {ListHead} /\ alarm \notin todo
    BY DEF Going
  <2>2. Walk => alarm' = next
    BY DEF Walk, Pass, Callback, ComesTo
  <2>3. \/ UNCHANGED <<alarm, todo>>
        \/ alarm' = alarm /\ todo' \subseteq todo /\ ~ Walk
        \/ alarm' = next /\ todo' \subseteq todo
    BY GoingStep
  <2>4. next # alarm
    BY <2>1
  <2> QED
    BY <2>1, <2>2, <2>3, <2>4 DEF Left
<1> QED
  BY <1>1, <1>2, PTL DEF TimerSpec, WalkGoesOn

LEMMA TimerInvFires == TimerInv /\ ~ Stuck => FiresOnTime
<1> SUFFICES ASSUME TimerInv, ~ Stuck, NEW a \in listed
             PROVE  /\ alarm = a => (Expired(a) <=> due[a] = 0)
                    /\ a \notin todo \cup {alarm} => due[a] > 0
  BY DEF FiresOnTime
<1>1. Kept(a) /\ (a \notin todo \cup {alarm} => due[a] > 0)
  BY DEF TimerInv, Listing
<1> QED
  BY <1>1, ExpiredDue DEF TimerInv

\* Every alarm fires at the tick it was set for, and at no other, whatever
\* the width of the counter and however callbacks set, end and stop alarms,
\* as long as none stops the entry alt_tick has read as the next.
THEOREM AlarmsFire ==
  ASSUME ~ StopsNext
  PROVE  TimerSpec => []FiresOnTime
<1>1. TimerSpec => [](TimerInv /\ Going)
  BY AlwaysGoing
<1>2. TimerInv /\ Going => FiresOnTime
  BY TimerInvFires DEF Going
<1> QED
  BY <1>1, <1>2, PTL

-----------------------------------------------------------------------------
\* A time in microseconds.
Total(t) == t.sec * ALT_US + t.usec

\* The time of day that should be returned is in range, and as far from the
\* one at tick zero as the ticks since say.
ClockInv ==
  /\ alt_resettime \in [sec : Int, usec : Int]
  /\ wall # Unset =>
       /\ wall \in [sec : Nat, usec : 0 .. ALT_US - 1]
       /\ Total(wall) = Total(alt_resettime) + Micros(nticks)

\* The microseconds of n ticks, as those below a second and the seconds.
LEMMA MicrosSplit ==
  ASSUME NEW n \in Nat
  PROVE  /\ n \div Rate \in Nat /\ Micros(n) \in Nat
         /\ Micros(n) % ALT_US \in 0 .. ALT_US - 1
         /\ Micros(n) = (n \div Rate) * ALT_US + (Micros(n) % ALT_US)
<1> DEFINE us == ALT_US \div Rate
           s  == n \div Rate
           r  == n % Rate
<1>1. Rate \in Nat \ {0} /\ ALT_US \in Nat \ {0} /\ ALT_US \in Int /\ n \in Int
  BY TimerAssumption, ClockAssumption
<1>2. us \in Int /\ ALT_US = us * Rate
  BY <1>1, ClockAssumption, DivMod
<1>3. s \in Int /\ r \in 0 .. Rate - 1 /\ n = s * Rate + r
  BY <1>1, DivMod
<1>. HIDE DEF us, s, r
<1>4. us > 0
  BY <1>1, <1>2
<1>5. s >= 0
  BY <1>1, <1>3
<1>6. us * r \in 0 .. ALT_US - 1
  <2>1. us * r \in Nat
    <3>1. us \in Nat /\ r \in Nat
      BY <1>1, <1>2, <1>3, <1>4
    <3> QED
      BY <3>1, ProductNat
  <2>2. us * Rate = us * r + us * (Rate - r)
    BY <1>1, <1>2, <1>3
  <2>3. us * (Rate - r) > 0
    BY <1>1, <1>2, <1>3, <1>4
  <2> QED
    BY <1>1, <1>2, <1>3, <2>1, <2>2, <2>3
<1>7. us * n = s * ALT_US + us * r
  <2>1. us * n = us * (s * Rate) + us * r
    BY <1>1, <1>2, <1>3
  <2>2. us * (s * Rate) = s * (us * Rate)
    BY <1>1, <1>2, <1>3
  <2> QED
    BY <1>2, <2>1, <2>2
<1>8. Micros(n) = us * n
  BY DEF Micros, us
<1>9. Micros(n) \in Nat
  BY <1>1, <1>2, <1>4, <1>8
<1>10. /\ Micros(n) \div ALT_US \in Int /\ Micros(n) % ALT_US \in 0 .. ALT_US - 1
       /\ Micros(n) = (Micros(n) \div ALT_US) * ALT_US + (Micros(n) % ALT_US)
  <2>1. Micros(n) \in Int
    BY <1>9
  <2> HIDE <1>9
  <2> QED
    BY <1>1, <2>1, DivMod
<1>11. Micros(n) % ALT_US = us * r
  <2> DEFINE q == Micros(n) \div ALT_US
             v == Micros(n) % ALT_US
             w == us * r
  <2>1. q \in Int /\ v \in 0 .. ALT_US - 1 /\ w \in 0 .. ALT_US - 1
        /\ q * ALT_US + v = s * ALT_US + w
    BY <1>6, <1>7, <1>8, <1>10
  <2> HIDE DEF q, v, w
  <2>2. v = w
    BY <1>1, <1>3, <2>1, DivModUnique
  <2> QED
    BY <2>2 DEF v, w
<1>12. n \div Rate \in Nat
  BY <1>3, <1>5 DEF s
<1> QED
  BY <1>7, <1>8, <1>9, <1>10, <1>11, <1>12 DEF s

LEMMA MicrosNext ==
  ASSUME NEW n \in Nat
  PROVE  Micros(n + 1) = Micros(n) + Micros(1) /\ Micros(1) \in Nat
<1>1. Micros(1) \in Nat
  BY MicrosSplit
<1>2. ALT_US \div Rate \in Int
  BY TimerAssumption, ClockAssumption
<1> QED
  BY <1>1, <1>2 DEF Micros

\* Putting the microseconds in range does not change the time.
LEMMA NormalTotal ==
  ASSUME NEW t \in [sec : Int, usec : Int]
  PROVE  /\ Normal(t) \in [sec : Int, usec : 0 .. ALT_US - 1]
         /\ Total(Normal(t)) = Total(t)
         /\ Total(t) >= 0 => Normal(t).sec \in Nat
<1> DEFINE d == t.usec \div ALT_US
           m == t.usec % ALT_US
<1>1. ALT_US \in Nat \ {0} /\ t.usec \in Int /\ t.sec \in Int
  BY ClockAssumption
<1>2. d \in Int /\ m \in 0 .. ALT_US - 1 /\ t.usec = d * ALT_US + m
  BY <1>1, DivMod
<1>3. Normal(t) = [sec |-> t.sec + d, usec |-> m]
  BY DEF Normal
<1> HIDE DEF d, m
<1>4. (t.sec + d) * ALT_US = t.sec * ALT_US + d * ALT_US
  BY <1>1, <1>2
<1>5. t.sec + d \in Int /\ t.sec * ALT_US \in Int /\ d * ALT_US \in Int
  BY <1>1, <1>2
<1>6. Total(Normal(t)) = Total(t)
  BY <1>1, <1>2, <1>3, <1>4, <1>5 DEF Total
<1>7. ASSUME Total(t) >= 0 PROVE t.sec + d >= 0
  <2>1. (t.sec + d) * ALT_US + m >= 0
    BY <1>1, <1>2, <1>4, <1>5, <1>7 DEF Total
  <2> QED
    BY <1>1, <1>2, <1>5, <2>1
<1> QED
  BY <1>2, <1>3, <1>5, <1>6, <1>7

\* Two times in range with the same microseconds are the same.
LEMMA TotalUnique ==
  ASSUME NEW t \in [sec : Int, usec : 0 .. ALT_US - 1],
         NEW u \in [sec : Int, usec : 0 .. ALT_US - 1],
         Total(t) = Total(u)
  PROVE  t = u
<1>1. t.sec = u.sec /\ t.usec = u.usec
  BY ClockAssumption, DivModUnique DEF Total
<1> QED
  BY <1>1

\* settimeofday, where its product does not overflow.
LEMMA SetTimeKeeps ==
  ASSUME TimerTypeOK, ClockInv, NEW t \in Times, SetTimeOfDay(t)
  PROVE  ClockInv'
<1>1. /\ nticks \in Nat /\ ALT_US \in Nat \ {0} /\ t \in [sec : Nat, usec : 0 .. ALT_US - 1]
      /\ M \in Nat /\ M > 0
  BY TimerAssumption, ClockAssumption DEF TimerTypeOK
<1> DEFINE s == nticks \div Rate
<1>2. /\ s \in Nat /\ Micros(nticks) \in Nat
      /\ Micros(nticks) = s * ALT_US + (Micros(nticks) % ALT_US)
  BY <1>1, MicrosSplit
<1>3. Micros(nticks) % M \in Int /\ (Micros(nticks) % M) % ALT_US \in Int
  BY <1>1, <1>2
<1>4. /\ alt_resettime' = [sec  |-> t.sec - s, usec |-> t.usec - ((Micros(nticks) % M) % ALT_US)]
      /\ wall' = (IF Micros(nticks) < M THEN t ELSE Unset) /\ nticks' = nticks
  BY DEF SetTimeOfDay, SinceReset
<1> HIDE DEF s
<1>5. alt_resettime' \in [sec : Int, usec : Int]
  BY <1>1, <1>2, <1>3, <1>4
<1>6. ASSUME wall' # Unset PROVE Total(wall') = Total(alt_resettime') + Micros(nticks)
  <2>1. wall' = t /\ Micros(nticks) % M = Micros(nticks)
    BY <1>1, <1>2, <1>4, <1>6
  <2>2. (t.sec - s) * ALT_US = t.sec * ALT_US - s * ALT_US
    BY <1>1, <1>2
  <2>3. t.sec * ALT_US \in Int /\ s * ALT_US \in Int
    BY <1>1, <1>2
  <2>4. Micros(nticks) % ALT_US \in Int
    BY <1>3, <2>1
  <2> QED
    BY <1>1, <1>2, <1>4, <2>1, <2>2, <2>3, <2>4 DEF Total
<1> QED
  BY <1>1, <1>4, <1>5, <1>6 DEF ClockInv, Micros

\* A tick.
LEMMA WallTickKeeps ==
  ASSUME TimerTypeOK, ClockInv, Tick, WallTick
  PROVE  ClockInv'
<1> SUFFICES ASSUME wall' # Unset
             PROVE  /\ wall' \in [sec : Nat, usec : 0 .. ALT_US - 1]
                    /\ Total(wall') = Total(alt_resettime) + Micros(nticks')
  BY DEF ClockInv, WallTick, Micros
<1>1. /\ nticks \in Nat /\ nticks < M /\ M \in Nat /\ M > 0 /\ ALT_US \in Nat \ {0}
      /\ wall \in [sec : Nat, usec : 0 .. ALT_US - 1] /\ alt_resettime \in [sec : Int, usec : Int]
      /\ Total(wall) = Total(alt_resettime) + Micros(nticks)
  BY TimerAssumption, ClockAssumption DEF TimerTypeOK, ClockInv, WallTick
<1>2. nticks' = nticks + 1
  <2>1. nticks' # 0 /\ nticks' = (nticks + 1) % M
    BY DEF WallTick, Tick
  <2> QED
    BY <1>1, <2>1, Wrap
<1>3. Micros(nticks') = Micros(nticks) + Micros(1) /\ Micros(1) \in Nat
  BY <1>1, <1>2, MicrosNext
<1>4. Micros(nticks) \in Nat
  BY <1>1, MicrosSplit
<1> DEFINE t == [wall EXCEPT !.usec = @ + Micros(1)]
<1>5. /\ t \in [sec : Int, usec : Int] /\ t.sec = wall.sec /\ t.usec = wall.usec + Micros(1)
  BY <1>1, <1>3
<1>6. wall.sec * ALT_US \in Nat /\ wall.usec \in Nat
  BY <1>1
<1>7. Total(t) = Total(wall) + Micros(1) /\ Total(t) >= 0
  BY <1>3, <1>5, <1>6 DEF Total
<1>8. wall' = Normal(t)
  BY DEF WallTick
<1> HIDE DEF t
<1>9. /\ Normal(t) \in [sec : Int, usec : 0 .. ALT_US - 1] /\ Total(Normal(t)) = Total(t)
      /\ Normal(t).sec \in Nat
  BY <1>5, <1>7, NormalTotal
<1>10. Total(alt_resettime) \in Int
  BY <1>1 DEF Total
<1> QED
  BY <1>1, <1>3, <1>4, <1>7, <1>8, <1>9, <1>10

LEMMA ClockInvStep ==
  TimerInv /\ ClockInv /\ [TimerNext]_timerVars => ClockInv'
<1> SUFFICES ASSUME TimerTypeOK, ClockInv, [TimerNext]_timerVars PROVE ClockInv'
  BY DEF TimerInv
<1>1. ASSUME UNCHANGED <<nticks, clockVars>> PROVE ClockInv'
  BY <1>1 DEF clockVars, ClockInv, Total, Micros
<1>2. CASE Tick /\ WallTick
  BY <1>2, WallTickKeeps
<1>3. CASE \E t \in Times : SetTimeOfDay(t)
  BY <1>3, SetTimeKeeps
<1>4. CASE \/ SysclkInit \/ Pass \/ \E period \in Periods \cup {0} : Callback(period)
           \/ \E a \in Alarms : AlarmStop(a) \/ StopInCallback(a)
           \/ \E a \in Alarms, delay \in Delays : AlarmStart(a, delay) \/ StartInCallback(a, delay)
  BY <1>1, <1>4 DEF SysclkInit, Pass, Callback, Answer, AlarmStop, StopInCallback, Stopped,
                    AlarmStart, StartInCallback, Started
<1>5. CASE UNCHANGED timerVars
  BY <1>1, <1>5 DEF timerVars
<1> QED
  BY <1>2, <1>3, <1>4, <1>5 DEF TimerNext

LEMMA ClockInvInit == TimerInit => ClockInv
  BY DEF TimerInit, ClockInv

\* gettimeofday borrows microseconds from the seconds, and never runs out of
\* them: the sum is the time in range with the same microseconds.
LEMMA ClockInvRuns == TimerTypeOK /\ ClockInv => WallClockRuns
<1> SUFFICES ASSUME TimerTypeOK, ClockInv, wall # Unset PROVE GetTimeOfDay = wall
  BY DEF WallClockRuns
<1>1. /\ nticks \in Nat /\ ALT_US \in Nat \ {0} /\ alt_resettime \in [sec : Int, usec : Int]
      /\ wall \in [sec : Nat, usec : 0 .. ALT_US - 1]
      /\ Total(wall) = Total(alt_resettime) + Micros(nticks)
  BY TimerAssumption, ClockAssumption DEF TimerTypeOK, ClockInv
<1> DEFINE s == nticks \div Rate
           u == Micros(nticks) % ALT_US
           t == [sec |-> alt_resettime.sec + s, usec |-> alt_resettime.usec + u]
<1>2. s \in Nat /\ u \in Nat /\ Micros(nticks) = s * ALT_US + u
  BY <1>1, MicrosSplit
<1> HIDE DEF s, u
<1>3. t \in [sec : Int, usec : Int]
  BY <1>1, <1>2
<1>4. Total(t) = Total(wall)
  <2>1. (alt_resettime.sec + s) * ALT_US = alt_resettime.sec * ALT_US + s * ALT_US
    BY <1>1, <1>2
  <2>2. alt_resettime.sec * ALT_US \in Int /\ s * ALT_US \in Int
    BY <1>1, <1>2
  <2> QED
    BY <1>1, <1>2, <2>1, <2>2 DEF Total
<1>5. GetTimeOfDay = IF t.usec < 0 /\ Normal(t).sec < 0 THEN [sec |-> 0, usec |-> 0]
                                                        ELSE Normal(t)
  BY DEF GetTimeOfDay, s, u
<1> HIDE DEF t
<1>6. wall.sec * ALT_US \in Nat /\ Total(wall) >= 0
  BY <1>1 DEF Total
<1>7. /\ Normal(t) \in [sec : Int, usec : 0 .. ALT_US - 1] /\ Total(Normal(t)) = Total(t)
      /\ Normal(t).sec \in Nat
  BY <1>3, <1>4, <1>6, NormalTotal
<1>8. Normal(t) = wall
  BY <1>1, <1>4, <1>7, TotalUnique
<1> QED
  BY <1>5, <1>7, <1>8

\* The time of day is the one last set and the ticks since, for every rate
\* that divides a second and every width of the counter, until it rolls over.
THEOREM ClockRuns == TimerSpec => []WallClockRuns
<1>1. TimerInit => TimerInv /\ ClockInv
  BY TimerInvInit, ClockInvInit
<1>2. TimerInv /\ ClockInv /\ [TimerNext]_timerVars => (TimerInv /\ ClockInv)'
  BY TimerInvStep, ClockInvStep
<1>3. TimerInv /\ ClockInv => WallClockRuns
  BY ClockInvRuns DEF TimerInv
<1> QED
  BY <1>1, <1>2, <1>3, PTL DEF TimerSpec

(***************************************************************************)
(* Interrupts.                                                             *)
(***************************************************************************)

Frame == [irq : Irq, open : BOOLEAN, mask : SUBSET Irq]

\* What the n-th routine lets in, as an interruptible one.
Lets(n) == IF n = 0 THEN Irq ELSE Above(running[n].irq)

\* Only interruptible routines are interrupted, and each one found the mask
\* of the routine it has interrupted.
Frames ==
  \A n \in 1 .. Len(running) :
    /\ n < Len(running) => running[n].open
    /\ running[n].mask = Lets(n - 1)

\* The innermost interruptible routine has set the mask.
Depth == IF running # <<>> /\ ~ Inmost.open THEN Len(running) - 1 ELSE Len(running)

MaskSet == alt_priority_mask = Lets(Depth)

\* The processor takes interrupts outside of routines and in open ones.
Taken == pie => running = <<>> \/ Inmost.open

Enabled == ienable = alt_irq_active \cap alt_priority_mask

IrqInv == IrqTypeOK /\ Frames /\ MaskSet /\ Taken /\ Enabled /\ NestsUpward

-----------------------------------------------------------------------------
\* The interrupt alt_irq_handler finds is pending.
LEMMA FirstPending ==
  ASSUME IrqTypeOK, Pending # {}
  PROVE  First \in Pending
<1>1. Irq \subseteq Nat
  BY IrqAssumption DEF Irq
<1>2. Pending \subseteq Nat
  BY <1>1 DEF Pending, IrqTypeOK
<1>3. PICK i \in Pending : \A j \in Pending : ~ (j < i)
  BY <1>2, LeastNatural
<1>4. \A j \in Pending : i <= j
  BY <1>2, <1>3
<1> QED
  BY <1>3, <1>4 DEF First

\* The routines below the innermost one.
LEMMA OuterFrames ==
  ASSUME running \in Seq(Frame), running # <<>>
  PROVE  /\ Len(running) \in Nat \ {0} /\ Inmost \in Frame
         /\ Outer \in Seq(Frame) /\ Len(Outer) = Len(running) - 1
         /\ \A n \in 1 .. Len(running) - 1 : Outer[n] = running[n]
<1>1. Len(running) \in Nat \ {0}
  OBVIOUS
<1>2. Inmost \in Frame
  BY <1>1 DEF Inmost
<1> DEFINE k == Len(running) - 1
<1>3. k \in Int /\ \A i \in 1 .. k : running[i] \in Frame
  BY <1>1
<1>4. /\ Outer \in Seq(Frame)
      /\ Len(Outer) = (IF 1 <= k THEN k - 1 + 1 ELSE 0)
      /\ \A i \in 1 .. k - 1 + 1 : Outer[i] = running[1 + i - 1]
  BY <1>3, SubSeqProperties DEF Outer
<1>5. Len(Outer) = Len(running) - 1
  <2>1. k \in Nat
    BY <1>1
  <2> HIDE DEF k
  <2>2. Len(Outer) = k
    BY <1>4, <2>1
  <2> QED
    BY <2>2 DEF k
<1>6. ASSUME NEW n \in 1 .. Len(running) - 1 PROVE Outer[n] = running[n]
  <2>1. n \in 1 .. k - 1 + 1 /\ 1 + n - 1 = n
    BY <1>1
  <2> HIDE DEF k
  <2> QED
    BY <1>4, <2>1
<1> QED
  BY <1>1, <1>2, <1>4, <1>5, <1>6

\* A routine of a pending interrupt is called inside the routines of s, which
\* are the running ones or those that stay when the innermost one returns.
LEMMA CallKeeps ==
  ASSUME IrqInv, Pending # {}, NEW s \in Seq(Frame),
         Len(s) = Depth,
         \A n \in 1 .. Len(s) : s[n] = running[n],
         running' = Append(s, Call), pie' = FALSE,
         UNCHANGED <<lines, ienable, alt_irq_active, alt_priority_mask, handler>>
  PROVE  IrqInv'
<1>1. running \in Seq(Frame) /\ Len(running) \in Nat
  BY DEF IrqInv, IrqTypeOK, Frame
<1>2. First \in Pending /\ First \in Lets(Depth) /\ First \in Irq /\ Irq \subseteq Int
  BY FirstPending, IrqAssumption DEF IrqInv, Enabled, MaskSet, Pending, IrqTypeOK, Irq
<1>3. Call \in Frame /\ Call.irq = First /\ Call.open = FALSE /\ Call.mask = alt_priority_mask
  BY <1>2 DEF Call, Frame, IrqInv, IrqTypeOK
<1>4. /\ running' \in Seq(Frame) /\ running' # <<>> /\ Len(running') = Len(s) + 1
      /\ running'[Len(s) + 1] = Call /\ \A n \in 1 .. Len(s) : running'[n] = running[n]
  BY <1>3, AppendProperties
<1>5. Len(s) \in Nat /\ Len(s) <= Len(running)
  BY <1>1 DEF Depth
<1>6. \A n \in 1 .. Len(s) : running[n] \in Frame /\ running[n].open
  BY <1>1, <1>5, OuterFrames DEF IrqInv, Frames, Depth, Inmost
<1>7. IrqTypeOK' /\ Taken' /\ Enabled'
  BY <1>4 DEF IrqInv, IrqTypeOK, Frame, Taken, Enabled
<1>8. \A n \in 0 .. Len(s) : Lets(n)' = Lets(n)
  BY <1>4, <1>5 DEF Lets
<1>9. Frames'
  <2> SUFFICES ASSUME NEW n \in 1 .. Len(s) + 1
               PROVE  (n < Len(s) + 1 => running'[n].open) /\ running'[n].mask = Lets(n - 1)
    BY <1>4, <1>5, <1>8 DEF Frames
  <2>1. CASE n = Len(s) + 1
    BY <2>1, <1>3, <1>4, <1>5 DEF IrqInv, MaskSet
  <2>2. CASE n \in 1 .. Len(s)
    BY <2>2, <1>4, <1>5, <1>6, <1>1 DEF IrqInv, Frames
  <2> QED
    BY <2>1, <2>2, <1>5
<1>10. MaskSet'
  <2>1. Depth' = Len(s)
    BY <1>3, <1>4, <1>5 DEF Depth, Inmost
  <2> QED
    BY <2>1, <1>5, <1>8 DEF IrqInv, MaskSet
<1>11. NestsUpward'
  <2>1. DOMAIN running' = 1 .. Len(s) + 1 /\ DOMAIN running = 1 .. Len(running)
    BY <1>1, <1>4
  <2>2. \A m, n \in 1 .. Len(s) : m < n => running[n].irq < running[m].irq
    BY <2>1, <1>5 DEF IrqInv, NestsUpward
  <2>3. \A m \in 1 .. Len(s) : First < running[m].irq
    <3>1. Len(s) > 0 => First < running[Len(s)].irq
      BY <1>2, <1>5 DEF Lets, Above
    <3>2. \A m \in 1 .. Len(s) : running[m].irq \in Int
      BY <1>2, <1>6 DEF Frame
    <3> SUFFICES ASSUME NEW m \in 1 .. Len(s) PROVE First < running[m].irq
      OBVIOUS
    <3>3. m < Len(s) => running[Len(s)].irq < running[m].irq
      BY <2>2, <1>5
    <3> QED
      BY <3>1, <3>2, <3>3, <1>2, <1>5
  <2> QED
    BY <2>1, <2>2, <2>3, <1>3, <1>4, <1>5 DEF NestsUpward
<1> QED
  BY <1>7, <1>9, <1>10, <1>11 DEF IrqInv

\* The innermost routine opens or closes: the frames stay where they are.
LEMMA OpeningKeeps ==
  ASSUME IrqInv, running # <<>>, NEW o \in BOOLEAN,
         running' = Append(Outer, [Inmost EXCEPT !.open = o]), pie' = o,
         alt_priority_mask' = Lets(IF o THEN Len(running) ELSE Len(running) - 1),
         ienable' = alt_irq_active \cap alt_priority_mask',
         UNCHANGED <<lines, alt_irq_active, handler>>
  PROVE  IrqInv'
<1> DEFINE f == [Inmost EXCEPT !.open = o]
<1>1. running \in Seq(Frame)
  BY DEF IrqInv, IrqTypeOK, Frame
<1>2. f \in Frame /\ f.irq = Inmost.irq /\ f.mask = Inmost.mask /\ f.open = o
  BY <1>1, OuterFrames DEF Frame
<1> HIDE DEF f
<1>3. running' = Append(Outer, f)
  BY DEF f
<1>4. /\ running' \in Seq(Frame) /\ running' # <<>> /\ Len(running') = Len(running)
      /\ running'[Len(running)] = f /\ Len(running) \in Nat \ {0}
      /\ \A n \in 1 .. Len(running) - 1 : running'[n] = running[n]
  BY <1>1, <1>2, <1>3, OuterFrames, AppendProperties
<1>5. \A n \in 1 .. Len(running) : /\ running'[n].irq = running[n].irq
                                   /\ running'[n].mask = running[n].mask
                                   /\ n < Len(running) => running'[n].open = running[n].open
  BY <1>2, <1>4 DEF Inmost
<1>6. \A n \in 0 .. Len(running) : Lets(n)' = Lets(n)
  BY <1>4, <1>5 DEF Lets
<1>7. Depth' = IF o THEN Len(running) ELSE Len(running) - 1
  BY <1>2, <1>4 DEF Depth, Inmost
<1>8. MaskSet' /\ Enabled'
  BY <1>4, <1>6, <1>7 DEF MaskSet, Enabled
<1>9. alt_priority_mask' \in SUBSET Irq
  BY <1>1, <1>4 DEF Lets, Above
<1>10. IrqTypeOK'
  BY <1>4, <1>9 DEF IrqInv, IrqTypeOK, Frame
<1>11. Taken'
  BY <1>2, <1>4 DEF Taken, Inmost
<1>12. Frames'
  BY <1>4, <1>5, <1>6 DEF IrqInv, Frames
<1>13. NestsUpward'
  BY <1>1, <1>4, <1>5 DEF IrqInv, NestsUpward
<1> QED
  BY <1>8, <1>10, <1>11, <1>12, <1>13 DEF IrqInv

\* The last routine of an exception returns to the one it interrupted.
LEMMA ExitKeeps ==
  ASSUME IrqInv, running # <<>>, ~ Inmost.open, running' = Outer, pie' = TRUE,
         UNCHANGED <<lines, ienable, alt_irq_active, alt_priority_mask, handler>>
  PROVE  IrqInv'
<1>1. running \in Seq(Frame)
  BY DEF IrqInv, IrqTypeOK, Frame
<1>2. /\ Len(running) \in Nat \ {0} /\ running' \in Seq(Frame)
      /\ Len(running') = Len(running) - 1
      /\ \A n \in 1 .. Len(running') : running'[n] = running[n]
  BY <1>1, OuterFrames
<1>3. running' # <<>> => Len(running') \in 1 .. Len(running) - 1
  BY <1>2
<1>4. \A n \in 1 .. Len(running') : running[n].open
  BY <1>2 DEF IrqInv, Frames
<1>5. \A n \in 0 .. Len(running') : Lets(n)' = Lets(n)
  BY <1>2 DEF Lets
<1>6. Taken' /\ Depth' = Len(running')
  BY <1>2, <1>3, <1>4 DEF Taken, Depth, Inmost
<1>7. MaskSet' /\ Enabled'
  BY <1>2, <1>5, <1>6 DEF IrqInv, MaskSet, Enabled, Depth
<1>8. IrqTypeOK'
  BY <1>2 DEF IrqInv, IrqTypeOK, Frame
<1>9. Frames'
  BY <1>2, <1>4, <1>5 DEF IrqInv, Frames
<1>10. NestsUpward'
  BY <1>1, <1>2 DEF IrqInv, NestsUpward
<1> QED
  BY <1>6, <1>7, <1>8, <1>9, <1>10 DEF IrqInv

\* The steps that change no routine.
LEMMA EnablingKeeps ==
  ASSUME IrqInv, UNCHANGED <<pie, alt_priority_mask, running>>,
         lines' \in SUBSET Irq, handler' \in SUBSET Irq,
         alt_irq_active' \in SUBSET handler',
         ienable' = alt_irq_active' \cap alt_priority_mask
  PROVE  IrqInv'
<1>1. IrqTypeOK' /\ Enabled'
  BY DEF IrqInv, IrqTypeOK, Enabled
<1>2. Frames' /\ MaskSet' /\ Taken' /\ NestsUpward'
  BY DEF IrqInv, Frames, MaskSet, Taken, NestsUpward, Lets, Depth, Inmost
<1> QED
  BY <1>1, <1>2 DEF IrqInv

-----------------------------------------------------------------------------
LEMMA IrqInvInit == IrqInit => IrqInv
<1> SUFFICES ASSUME IrqInit PROVE IrqInv
  OBVIOUS
<1>1. running = <<>> /\ Len(running) = 0 /\ DOMAIN running = {}
  BY DEF IrqInit
<1>2. IrqTypeOK /\ Enabled /\ Taken
  BY DEF IrqInit, IrqTypeOK, Enabled, Taken
<1>3. Frames /\ NestsUpward
  BY <1>1 DEF Frames, NestsUpward
<1>4. MaskSet
  BY <1>1 DEF IrqInit, MaskSet, Depth, Lets
<1> QED
  BY <1>2, <1>3, <1>4 DEF IrqInv

LEMMA IrqInvStep == ~ CallsMasked /\ IrqInv /\ [IrqNext]_irqVars => IrqInv'
<1> SUFFICES ASSUME ~ CallsMasked, IrqInv, [IrqNext]_irqVars PROVE IrqInv'
  OBVIOUS
<1> USE DEF Calls
<1>1. CASE UNCHANGED irqVars
  BY <1>1, EnablingKeeps DEF irqVars, IrqInv, IrqTypeOK, Enabled
<1>2. CASE Take
  <2>1. running = <<>> \/ Inmost.open
    BY <1>2 DEF Take, IrqInv, Taken
  <2>2. running \in Seq(Frame) /\ Len(running) = Depth
    BY <2>1 DEF IrqInv, IrqTypeOK, Frame, Depth
  <2> QED
    BY <1>2, <2>2, CallKeeps DEF Take
<1>3. CASE Return
  <2>1. /\ running # <<>> /\ ~ Inmost.open /\ running \in Seq(Frame)
        /\ UNCHANGED <<lines, ienable, alt_irq_active, alt_priority_mask, handler>>
    BY <1>3 DEF Return, InHandler, IrqInv, IrqTypeOK, Frame
  <2>2. Outer \in Seq(Frame) /\ Len(Outer) = Depth /\ \A n \in 1 .. Len(Outer) : Outer[n] = running[n]
    BY <2>1, OuterFrames DEF Depth
  <2>3. CASE Pending = {}
    BY <1>3, <2>1, <2>3, ExitKeeps DEF Return
  <2>4. CASE Pending # {}
    BY <1>3, <2>1, <2>2, <2>4, CallKeeps DEF Return
  <2> QED
    BY <2>3, <2>4
<1>4. CASE Interruptible \/ NonInterruptible
  <2>1. running # <<>> /\ Len(running) \in Nat \ {0} /\ Inmost = running[Len(running)]
    BY <1>4 DEF Interruptible, NonInterruptible, InHandler, Inmost, IrqInv, IrqTypeOK
  <2>2. Lets(Len(running)) = Above(Inmost.irq) /\ Lets(Len(running) - 1) = Inmost.mask
    <3>1. Len(running) \in 1 .. Len(running)
      BY <2>1
    <3> QED
      BY <2>1, <3>1 DEF Lets, IrqInv, Frames
  <2>3. CASE Interruptible
    BY <2>1, <2>2, <2>3, OpeningKeeps DEF Interruptible
  <2>4. CASE NonInterruptible
    BY <2>1, <2>2, <2>4, OpeningKeeps DEF NonInterruptible
  <2> QED
    BY <1>4, <2>3, <2>4
<1>5. CASE Clear
  BY <1>5, EnablingKeeps DEF Clear, IrqInv, IrqTypeOK, Enabled
<1>6. ASSUME NEW i \in Irq, Raise(i) PROVE IrqInv'
  BY <1>6, EnablingKeeps DEF Raise, IrqInv, IrqTypeOK, Enabled
<1>7. ASSUME NEW i \in Irq,
             Register(i) \/ Deregister(i) \/ (Registered(i) /\ Enable(i)) \/ Disable(i)
      PROVE  IrqInv'
  <2>1. alt_priority_mask = Irq
    BY <1>7 DEF Register, Deregister, Enable, Disable
  <2> QED
    BY <1>7, <2>1, EnablingKeeps
    DEF Register, Deregister, Registered, Enable, Disable, WriteEnable, IrqInv, IrqTypeOK
<1> QED
  BY <1>1, <1>2, <1>3, <1>4, <1>5, <1>6, <1>7 DEF IrqNext

\* A routine is interrupted only by one of a higher priority, however many
\* interrupts there are and however deep interruptible routines nest.
THEOREM RoutinesNest ==
  ASSUME ~ CallsMasked
  PROVE  IrqSpec => []NestsUpward
<1>1. IrqInv /\ [IrqNext]_irqVars => IrqInv'
  BY IrqInvStep
<1>2. IrqSpec => []IrqInv
  BY <1>1, IrqInvInit, PTL DEF IrqSpec
<1> QED
  BY <1>2, PTL DEF IrqInv

LEMMA IrqInvUnblocks == IrqInv => NoneStaysBlocked
<1> SUFFICES ASSUME IrqInv, \A n \in DOMAIN running : ~ running[n].open
             PROVE  alt_priority_mask = Irq
  BY DEF IrqInv, Enabled, NoneStaysBlocked
<1>1. Len(running) \in Nat /\ DOMAIN running = 1 .. Len(running)
  BY DEF IrqInv, IrqTypeOK
<1>2. Len(running) \in {0, 1}
  <2> SUFFICES ASSUME Len(running) > 1 PROVE FALSE
    BY <1>1
  <2>1. 1 \in 1 .. Len(running) /\ 1 < Len(running)
    BY <1>1
  <2> QED
    BY <1>1, <2>1 DEF IrqInv, Frames
<1>3. Depth = 0
  <2>1. CASE Len(running) = 0
    BY <2>1 DEF Depth
  <2>2. CASE Len(running) = 1
    BY <1>1, <2>2 DEF Depth, Inmost
  <2> QED
    BY <1>2, <2>1, <2>2
<1> QED
  BY <1>3 DEF IrqInv, MaskSet, Lets

\* After the interruptible routines have ended, every enabled interrupt is
\* let in again.
THEOREM BlocksEnd ==
  ASSUME ~ CallsMasked
  PROVE  IrqSpec => []NoneStaysBlocked
<1>1. IrqInv /\ [IrqNext]_irqVars => IrqInv'
  BY IrqInvStep
<1>2. IrqSpec => []IrqInv
  BY <1>1, IrqInvInit, PTL DEF IrqSpec
<1> QED
  BY <1>2, IrqInvUnblocks, PTL

(***************************************************************************)
(* The bench.                                                              *)
(***************************************************************************)

\* The types of the interrupts need no mask.
LEMMA IrqTypeStep == IrqTypeOK /\ [IrqNext]_irqVars => IrqTypeOK'
<1> SUFFICES ASSUME IrqTypeOK, [IrqNext]_irqVars PROVE IrqTypeOK'
  OBVIOUS
<1>1. CASE UNCHANGED irqVars
  BY <1>1 DEF irqVars, IrqTypeOK
<1>2. ASSUME Pending # {} PROVE Call \in Frame
  <2>1. First \in Irq
    BY <1>2, FirstPending DEF Pending, IrqTypeOK
  <2> QED
    BY <2>1 DEF IrqTypeOK, Call, Frame
<1>3. running \in Seq(Frame)
  BY DEF IrqTypeOK, Frame
<1>4. ASSUME InHandler PROVE Outer \in Seq(Frame) /\ Inmost \in Frame
  BY <1>3, <1>4, OuterFrames DEF InHandler
<1>5. ASSUME NEW s \in Seq(Frame), NEW frame \in Frame PROVE Append(s, frame) \in Seq(Frame)
  BY <1>5, AppendProperties
<1>6. CASE Take \/ Clear \/ Return
  <2>1. running' \in Seq(Frame)
    BY <1>2, <1>3, <1>4, <1>5, <1>6 DEF Take, Clear, Return
  <2> QED
    BY <1>6, <2>1 DEF Take, Clear, Return, IrqTypeOK, Frame
<1>7. CASE Interruptible \/ NonInterruptible
  <2>1. Inmost \in Frame /\ Outer \in Seq(Frame)
    BY <1>4, <1>7 DEF Interruptible, NonInterruptible
  <2>2. \A open \in BOOLEAN : [Inmost EXCEPT !.open = open] \in Frame
    BY <2>1 DEF Frame
  <2>3. running' \in Seq(Frame)
    BY <1>5, <1>7, <2>1, <2>2 DEF Interruptible, NonInterruptible
  <2>4. alt_priority_mask' \in SUBSET Irq
    BY <1>7, <2>1 DEF Interruptible, NonInterruptible, Frame, Above
  <2>5. ienable' \in SUBSET Irq /\ pie' \in BOOLEAN
    BY <1>7, <2>4 DEF Interruptible, NonInterruptible
  <2> QED
    BY <1>7, <2>3, <2>4, <2>5 DEF Interruptible, NonInterruptible, IrqTypeOK, Frame
<1>8. ASSUME NEW i \in Irq,
             \/ Raise(i) \/ Register(i) \/ Deregister(i) \/ Disable(i)
             \/ Registered(i) /\ Enable(i)
      PROVE  IrqTypeOK'
  BY <1>8 DEF Raise, Register, Deregister, Registered, Enable, Disable, WriteEnable, IrqTypeOK
<1> QED
  BY <1>1, <1>6, <1>7, <1>8 DEF IrqNext

BenchInv == FilesInv /\ TimerInv /\ ClockInv /\ IrqTypeOK

LEMMA BenchInvInit == HalInit => BenchInv
  BY FilesInvInit, TimerInvInit, ClockInvInit, IrqInvInit DEF HalInit, BenchInv, IrqInv

\* A step of the bench is one of each part, or leaves it alone.
LEMMA BenchSteps ==
  [HalNext]_halVars =>
    [FilesNext]_filesVars /\ [TimerNext]_timerVars /\ [IrqNext]_irqVars
<1> SUFFICES ASSUME [HalNext]_halVars
             PROVE  [FilesNext]_filesVars /\ [TimerNext]_timerVars /\ [IrqNext]_irqVars
  OBVIOUS
<1>1. CASE FilesNext /\ UNCHANGED <<timerVars, irqVars>>
  BY <1>1
<1>2. CASE TimerNext /\ UNCHANGED <<filesVars, irqVars>>
  BY <1>2
<1>3. CASE IrqNext /\ UNCHANGED <<filesVars, timerVars>>
  BY <1>3
<1>4. CASE UNCHANGED halVars
  BY <1>4 DEF halVars
<1> QED
  BY <1>1, <1>2, <1>3, <1>4 DEF HalNext

LEMMA BenchInvStep == BenchInv /\ [HalNext]_halVars => BenchInv'
  BY BenchSteps, FilesInvStep, TimerInvStep, ClockInvStep, IrqTypeStep DEF BenchInv

\* Every part keeps its types, whichever is on the bench, and also where
\* routines enable and disable interrupts with some of them masked.
THEOREM HalTypeCorrect == HalSpec => []HalTypeOK
<1>1. BenchInv => HalTypeOK
  BY DEF BenchInv, FilesInv, TimerInv, HalTypeOK
<1> QED
  BY <1>1, BenchInvInit, BenchInvStep, PTL DEF HalSpec

\* What holds of each part by itself holds on the bench, where one of them
\* runs: the theorems above are about what the runs check.
THEOREM PartsOnBench == HalSpec => FilesSpec /\ TimerSpec /\ IrqSpec
<1>1. HalInit => FilesInit /\ TimerInit /\ IrqInit
  BY DEF HalInit
<1> QED
  BY <1>1, BenchSteps, PTL DEF HalSpec, FilesSpec, TimerSpec, IrqSpec
=============================================================================
