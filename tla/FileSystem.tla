------------------------------ MODULE FileSystem ------------------------------
(***************************************************************************)
(* The fs module (fs.c, fs_path.c, fs_atomic_write.c): the mount table,    *)
(* the Futures that run on one lane per mount, atomic writes through a     *)
(* temporary file, watchers of changes and the root scripts load from.     *)
(* The device may lose power at every step; what is on flash stays.        *)
(***************************************************************************)
EXTENDS Naturals, FiniteSets, Sequences, SequencesExt

CONSTANTS Attempts,     \* ESP32_MQUICKJS_FS_ATOMIC_TEMP_ATTEMPTS
          MaxBytes,     \* the bound of readText, in blocks
          MaxEntries,   \* ESP32_MQUICKJS_FS_FUTURE_MAX_ENTRIES
          Slots,        \* ESP32_MQUICKJS_MAX_LITTLEFS_MOUNTS
          Kinds,        \* the operations scripts use
          Watched,      \* paths scripts watch
          MaxOps, MaxFaults, MaxCrashes, MaxLoads   \* bounds

VARIABLES
    phase,     \* of the runtime: "off", "up"
    table,     \* s_littlefs_mounts: slot -> partition
    vfs,       \* partitions registered with the VFS
    disk,      \* what the flash holds: partition -> path -> entry
    temps,     \* temporary files on flash, <<path, counter>>
    counter,   \* s_fs_atomic_temp_counter
    op,        \* Futures, in the order they are captured
    sources,   \* watchers: their path, the changes told to them, those older than they are
    loads,     \* script loads under way, innermost last: the root each found, the root it set
    loadRoot,  \* runtime->load_root
    torn,      \* history: files an append left with part of its text
    faults, crashes

vars == <<phase, table, vfs, disk, temps, counter, op, sources, loads, loadRoot, torn, faults, crashes>>

Ids == 1 .. MaxOps
\* Paths are sequences of names; "data" is the secondary partition at "/" and
\* "framework" the read-only one within it.
Labels == {"data", "framework"}
Root(l) == IF l = "data" THEN <<>> ELSE <<"framework">>
ReadOnly(l) == l = "framework"
Paths == {<<>>, <<"framework">>, <<"framework", "s">>, <<"f">>, <<"d">>}

NoEntry == [kind |-> "none", text |-> <<>>]
Dir == [kind |-> "dir", text |-> <<>>]
File(t) == [kind |-> "file", text |-> t]
NoOp == [phase |-> "none", kind |-> "none", path |-> <<>>, to |-> <<>>, key |-> 0, step |-> "none", text |-> <<>>,
         temp |-> 0, existed |-> FALSE, error |-> FALSE, cancel |-> FALSE, made |-> FALSE, file |-> FALSE, old |-> {}]

Init ==
    /\ phase = "off" /\ table = [s \in 1 .. Slots |-> "none"] /\ vfs = {}
    /\ disk = [l \in Labels |-> [p \in Paths |-> IF p \in {<<>>, <<"framework">>} THEN Dir ELSE NoEntry]]
    /\ temps = {} /\ counter = 0 /\ op = [o \in Ids |-> NoOp]
    /\ sources = {} /\ loads = <<>> /\ loadRoot = <<>> /\ torn = {} /\ faults = 0 /\ crashes = 0

Fault == faults < MaxFaults /\ faults' = faults + 1
-------------------------------------------------------------------------------
(* Paths and the mount table. *)

\* esp32_mquickjs_fs_path_contains, on resolved paths.
PathContains(root, p) == IsPrefix(root, p)
Mounted == {s \in 1 .. Slots : table[s] # "none"}
RootAt(s) == Root(table[s])
\* Mutation: the first mount of the table that contains the path.
find_littlefs_mount_by_root_first(p) ==
    LET matching == {s \in Mounted : PathContains(RootAt(s), p)}
    IN IF matching = {} THEN 0 ELSE CHOOSE s \in matching : \A t \in matching : s <= t

\* The longest mount that contains the path, 0 without one.
find_littlefs_mount_by_root(p) ==
    LET matching == {s \in Mounted : PathContains(RootAt(s), p)}
    IN IF matching = {} THEN 0 ELSE CHOOSE s \in matching : \A t \in matching : Len(RootAt(s)) >= Len(RootAt(t))
find_littlefs_mount_exact(p) == \E s \in Mounted : RootAt(s) = p
fs_has_child_mount(p) == \E s \in Mounted : RootAt(s) # p /\ PathContains(p, RootAt(s))
MountPoint(p) == find_littlefs_mount_exact(p) \/ fs_has_child_mount(p)
\* esp32_mquickjs_fs_mount_child: the entry of p that leads to the mount.
MountChildren(p) == {SubSeq(RootAt(s), 1, Len(p) + 1) : s \in {t \in Mounted : RootAt(t) # p /\ PathContains(p, RootAt(t))}}

\* No mount, another mount, a read-only one, a mount point.
fs_mutation_path_error(p, to) ==
    LET s == find_littlefs_mount_by_root(p)
    IN IF s = 0 THEN "ENOENT"
       ELSE IF s # find_littlefs_mount_by_root(to) THEN "EXDEV"
       ELSE IF ReadOnly(table[s]) THEN "EROFS"
       ELSE IF MountPoint(p) \/ MountPoint(to) THEN "EBUSY" ELSE "none"

\* The partition's own place, or the first free one.
remember_littlefs_mount(l) ==
    LET own == {s \in 1 .. Slots : table[s] = l}
        free == {s \in 1 .. Slots : table[s] = "none"}
    IN IF own # {} THEN own ELSE {s \in free : \A t \in free : s <= t}
forget_littlefs_mount(l) == [s \in 1 .. Slots |-> IF table[s] = l THEN "none" ELSE table[s]]

\* The runtime mounts its partitions before it starts; a full table gives the
\* partition back to the VFS.
esp32_mquickjs_mount_littlefs_partition(l) ==
    /\ phase = "off" /\ l \notin vfs /\ ~find_littlefs_mount_exact(Root(l))
    /\ \E s \in remember_littlefs_mount(l) : table' = [table EXCEPT ![s] = l] /\ vfs' = vfs \union {l}
    /\ UNCHANGED <<phase, disk, temps, counter, op, sources, loads, loadRoot, torn, faults, crashes>>
esp32_mquickjs_unmount_littlefs_partition(l) ==
    /\ phase = "off" /\ l \in vfs
    /\ vfs' = vfs \ {l} /\ table' = forget_littlefs_mount(l)
    /\ UNCHANGED <<phase, disk, temps, counter, op, sources, loads, loadRoot, torn, faults, crashes>>

Live(o) == op[o].phase \in {"queued", "active"}
esp32_mquickjs_init_fs_runtime ==
    /\ phase = "off" /\ phase' = "up"
    /\ UNCHANGED <<table, vfs, disk, temps, counter, op, sources, loads, loadRoot, torn, faults, crashes>>
\* The Futures have ended and the queues are closed.
esp32_mquickjs_deinit_fs_runtime ==
    /\ phase = "up" /\ (\A o \in Ids : ~Live(o)) /\ sources = {} /\ loads = <<>>
    /\ phase' = "off"
    /\ UNCHANGED <<table, vfs, disk, temps, counter, op, sources, loads, loadRoot, torn, faults, crashes>>
-------------------------------------------------------------------------------
(* The flash, as the VFS shows it. *)

\* The partition the VFS sends a path to.
Volume(p) == CHOOSE l \in {k \in vfs : PathContains(Root(k), p)} :
                 \A k \in vfs : PathContains(Root(k), p) => Len(Root(k)) <= Len(Root(l))
Routed(p) == \E l \in vfs : PathContains(Root(l), p)
Entry(p) == IF Routed(p) THEN disk[Volume(p)][p] ELSE NoEntry
Children(p) == {q \in Paths : /\ q # p /\ Routed(p) /\ PathContains(p, q) /\ Len(q) = Len(p) + 1
                              /\ disk[Volume(p)][q].kind # "none"}
Put(p, e) == [disk EXCEPT ![Volume(p)][p] = e]
\* rename(): a file or an empty directory, over nothing or over its like.
Renames(p, to) == /\ Routed(p) /\ Routed(to) /\ Volume(p) = Volume(to) /\ Entry(p).kind # "none" /\ Children(p) = {}
                  /\ Entry(to).kind \in {"none", Entry(p).kind} /\ Children(to) = {}
Moved(p, to) == IF p = to THEN disk ELSE [disk EXCEPT ![Volume(p)][to] = Entry(p), ![Volume(p)][p] = NoEntry]
-------------------------------------------------------------------------------
(* Futures: capture, lane, end. *)

First(o) == op[o].phase = "queued" /\ \A p \in 1 .. o - 1 : ~(Live(p) /\ op[p].key = op[o].key)
Mutating(kind) == kind \in {"write", "append", "remove", "rename", "mkdir", "open_w", "open_a"}
Gone(o) == [op EXCEPT ![o] = [NoOp EXCEPT !.phase = "gone"]]
Quiet == UNCHANGED <<phase, table, vfs, sources, loads, loadRoot, crashes>>

\* fs_future_prepare_common: a path that may not be changed is refused.
fs_future_prepare_common(o, kind, p, to, n) ==
    /\ phase = "up" /\ op[o].phase = "none" /\ \A q \in 1 .. o - 1 : op[q].phase # "none"
    /\ ~Mutating(kind) \/ fs_mutation_path_error(p, to) = "none"
    /\ op' = [op EXCEPT ![o] = [NoOp EXCEPT !.phase = "queued", !.kind = kind, !.path = p, !.to = to,
                                            !.key = find_littlefs_mount_by_root(p), !.text = [i \in 1 .. n |-> o],
                                            !.old = {w.path : w \in sources}]]
    /\ Quiet /\ UNCHANGED <<disk, temps, counter, torn, faults>>

fs_future_start(o) ==
    /\ First(o)
    /\ \/ op' = [op EXCEPT ![o].phase = "active", ![o].step = "run"] /\ UNCHANGED faults
       \/ Fault /\ op' = Gone(o)
    /\ Quiet /\ UNCHANGED <<disk, temps, counter, torn>>

\* What has started is only marked: its worker goes on.
fs_future_cancel(o) ==
    /\ \/ op[o].phase = "queued" /\ op' = Gone(o)
       \/ /\ op[o].phase = "active" /\ op[o].step # "completed" /\ ~op[o].cancel
          /\ op' = [op EXCEPT ![o].cancel = TRUE]
    /\ Quiet /\ UNCHANGED <<disk, temps, counter, torn, faults>>

\* fs_future_finish hands an open file to its stream (or to its fclose);
\* fs_future_release closes the file of a cancelled open.
Adopted(o) == op[o].file /\ ~op[o].cancel /\ ~op[o].error
fs_future_destroy(o) ==
    /\ op[o].phase = "active" /\ op[o].step = "completed"
    /\ op' = Gone(o)
    /\ Quiet /\ UNCHANGED <<disk, temps, counter, torn, faults>>
-------------------------------------------------------------------------------
(* fs_future_worker, one step per call that changes the flash. *)

Step(o, r) == op' = [op EXCEPT ![o] = r] /\ Quiet
At(o, kind, step) == op[o].phase = "active" /\ op[o].step = step /\ op[o].kind \in kind
Failed(o) == [op[o] EXCEPT !.step = "completed", !.error = TRUE]
Made(o) == [op[o] EXCEPT !.step = "notify", !.made = TRUE]
Ended(o) == [op[o] EXCEPT !.step = "completed"]

\* fs_open_atomic_temp: the first name of the next Attempts that is free.
fs_open_atomic_temp(o) ==
    /\ At(o, {"write"}, "run")
    /\ LET p == op[o].path
           free == {c \in counter .. counter + Attempts - 1 : <<p, c>> \notin temps}
       IN \/ \E c \in free : /\ \A d \in free : c <= d
                             /\ Step(o, [op[o] EXCEPT !.step = "data", !.temp = c])
                             /\ temps' = temps \union {<<p, c>>} /\ counter' = c + 1 /\ UNCHANGED faults
          \/ free = {} /\ Step(o, Failed(o)) /\ counter' = counter + Attempts /\ UNCHANGED <<temps, faults>>
          \/ Fault /\ Step(o, Failed(o)) /\ counter' = counter + 1 /\ UNCHANGED temps
    /\ UNCHANGED <<disk, torn>>

Temp(o) == <<op[o].path, op[o].temp>>
\* The temporary file is removed; nobody looks whether it was.
Removed(o) == temps' \in {temps, temps \ {Temp(o)}}
fs_atomic_write_sync_close(o) ==
    /\ At(o, {"write"}, "data")
    /\ \/ Step(o, [op[o] EXCEPT !.step = "replace"]) /\ UNCHANGED <<temps, faults>>
       \/ Fault /\ Step(o, Failed(o)) /\ Removed(o)
    /\ UNCHANGED <<disk, counter, torn>>
fs_atomic_replace(o) ==
    /\ At(o, {"write"}, "replace")
    /\ \/ /\ Entry(op[o].path).kind # "dir"
          /\ Step(o, Made(o)) /\ disk' = Put(op[o].path, File(op[o].text))
          /\ temps' = temps \ {Temp(o)} /\ torn' = torn \ {op[o].path} /\ UNCHANGED faults
       \/ /\ Entry(op[o].path).kind = "dir" /\ Step(o, Failed(o)) /\ temps' = temps \ {Temp(o)} /\ UNCHANGED <<disk, faults, torn>>
       \/ Fault /\ Step(o, Failed(o)) /\ Removed(o) /\ UNCHANGED <<disk, torn>>
    /\ UNCHANGED counter

\* fopen() of an append or of a stream: "w" truncates, "a" makes the file.
Opened(o) == [op[o] EXCEPT !.step = IF op[o].kind = "append" THEN "data" ELSE "completed",
                           !.existed = Entry(op[o].path).kind # "none", !.file = op[o].kind # "append"]
fs_fopen(o) ==
    /\ At(o, {"append", "open_r", "open_w", "open_a"}, "run")
    /\ LET p == op[o].path
           e == Entry(p).kind
           ok == IF op[o].kind = "open_r" THEN e = "file" ELSE e # "dir"
       IN \/ /\ ok /\ Step(o, Opened(o))
             /\ disk' = IF op[o].kind = "open_w" \/ e = "none" THEN Put(p, File(<<>>)) ELSE disk
             /\ torn' = IF op[o].kind = "open_w" THEN torn \ {p} ELSE torn
             /\ UNCHANGED faults
          \/ ~ok /\ Step(o, Failed(o)) /\ UNCHANGED <<disk, faults, torn>>
          \/ Fault /\ Step(o, Failed(o)) /\ UNCHANGED <<disk, torn>>
    /\ UNCHANGED <<temps, counter>>

\* fs_write_file_and_sync of an append: what failed may have written a part.
Appended(o, n) == Put(op[o].path, File(Entry(op[o].path).text \o SubSeq(op[o].text, 1, n)))
fs_write_file_and_sync(o) ==
    /\ At(o, {"append"}, "data")
    /\ \/ /\ Step(o, IF ~op[o].existed \/ Len(op[o].text) > 0 THEN Made(o) ELSE Ended(o))
          /\ disk' = Appended(o, Len(op[o].text)) /\ UNCHANGED <<faults, torn>>
       \/ \E n \in 0 .. Len(op[o].text) :
             /\ Fault /\ Step(o, Failed(o)) /\ disk' = Appended(o, n)
             /\ torn' = IF n \in 1 .. Len(op[o].text) - 1 THEN torn \union {op[o].path} ELSE torn
    /\ UNCHANGED <<temps, counter>>

\* remove(), rename() and mkdir(): whether the call can succeed and what it leaves.
Can(o) ==
    LET p == op[o].path IN
    CASE op[o].kind = "remove" -> Entry(p).kind # "none" /\ Children(p) = {}
      [] op[o].kind = "rename" -> Renames(p, op[o].to)
      [] OTHER -> Entry(p).kind = "none" /\ Entry(Front(p)).kind = "dir"
Left(o) ==
    LET p == op[o].path IN
    CASE op[o].kind = "remove" -> Put(p, NoEntry)
      [] op[o].kind = "rename" -> Moved(p, op[o].to)
      [] OTHER -> Put(p, Dir)
TornLeft(o) == IF op[o].kind = "rename" /\ op[o].path \in torn THEN torn \union {op[o].to} ELSE torn
fs_future_change(o) ==
    /\ At(o, {"remove", "rename", "mkdir"}, "run")
    /\ \/ Can(o) /\ Step(o, Made(o)) /\ disk' = Left(o) /\ torn' = TornLeft(o) /\ UNCHANGED faults
       \/ ~Can(o) /\ Step(o, Failed(o)) /\ UNCHANGED <<disk, faults, torn>>
       \/ Fault /\ Step(o, Failed(o)) /\ UNCHANGED <<disk, torn>>
    /\ UNCHANGED <<temps, counter>>

\* fs_read_text_bounded: a longer file is refused, not cut.
fs_read_text_bounded(o) ==
    /\ At(o, {"read"}, "run")
    /\ LET e == Entry(op[o].path) IN
       \/ /\ IF e.kind = "file" /\ Len(e.text) <= MaxBytes THEN Step(o, [Ended(o) EXCEPT !.text = e.text]) ELSE Step(o, Failed(o))
          /\ UNCHANGED faults
       \/ Fault /\ Step(o, Failed(o))
    /\ UNCHANGED <<disk, temps, counter, torn>>

\* fs_list_namespace: mounts below the path and the directory's own entries,
\* each once, at most MaxEntries of them.
Listed(p) == MountChildren(p) \union Children(p)
Listable(p) == Entry(p).kind = "dir" \/ fs_has_child_mount(p) \/ p = <<>>
fs_list_namespace(o) ==
    /\ At(o, {"list"}, "run")
    /\ LET ok == Listable(op[o].path) /\ Cardinality(Listed(op[o].path)) <= MaxEntries
       IN Step(o, IF ok THEN [Ended(o) EXCEPT !.text = SetToSeq(Listed(op[o].path))] ELSE Failed(o))
    /\ UNCHANGED <<disk, temps, counter, torn, faults>>
-------------------------------------------------------------------------------
(* Watchers. *)

Concerns(o, w) == \/ PathContains(w.path, op[o].path)
                  \/ op[o].kind = "rename" /\ PathContains(w.path, op[o].to)
\* fs_notify_change, under the lock of the sources.
esp32_mquickjs_fs_notify_change(o) ==
    /\ op[o].phase = "active" /\ op[o].step = "notify"
    /\ op' = [op EXCEPT ![o].step = "completed"]
    /\ sources' = {IF Concerns(o, w) THEN [w EXCEPT !.told = Append(@, o)] ELSE w : w \in sources}
    /\ UNCHANGED <<phase, table, vfs, disk, temps, counter, loads, loadRoot, torn, faults, crashes>>
js_fs_watch(p) ==
    /\ phase = "up" /\ \A w \in sources : w.path # p
    /\ sources' = sources \union {[path |-> p, told |-> <<>>]}
    /\ UNCHANGED <<phase, table, vfs, disk, temps, counter, op, loads, loadRoot, torn, faults, crashes>>
fs_change_queue_closed(w) ==
    /\ sources' = sources \ {w} /\ op' = [o \in Ids |-> [op[o] EXCEPT !.old = @ \ {w.path}]]
    /\ UNCHANGED <<phase, table, vfs, disk, temps, counter, loads, loadRoot, torn, faults, crashes>>
-------------------------------------------------------------------------------
(* Scripts: each loads its own scripts from the mount it came from. *)

\* fs_enter_load: load() from the innermost root, or a startup or framework script.
fs_enter_load(root) ==
    /\ phase = "up" /\ Len(loads) < MaxLoads /\ find_littlefs_mount_by_root(root) # 0
    /\ LET set == RootAt(find_littlefs_mount_by_root(root))
       IN loads' = Append(loads, [found |-> loadRoot, set |-> set]) /\ loadRoot' = set
    /\ UNCHANGED <<phase, table, vfs, disk, temps, counter, op, sources, torn, faults, crashes>>
\* fs_leave_load, when the script has returned or thrown.
fs_leave_load ==
    /\ loads # <<>>
    /\ loadRoot' = Last(loads).found /\ loads' = Front(loads)
    /\ UNCHANGED <<phase, table, vfs, disk, temps, counter, op, sources, torn, faults, crashes>>
-------------------------------------------------------------------------------
\* The power goes: only the flash stays. An append may keep a part of its text.
PowerLost ==
    /\ phase = "up" /\ crashes < MaxCrashes /\ crashes' = crashes + 1
    /\ phase' = "off" /\ table' = [s \in 1 .. Slots |-> "none"] /\ vfs' = {} /\ counter' = 0
    /\ op' = [o \in Ids |-> IF Live(o) THEN [NoOp EXCEPT !.phase = "gone"] ELSE op[o]]
    /\ sources' = {} /\ loads' = <<>> /\ loadRoot' = <<>>
    /\ \/ UNCHANGED <<disk, torn>>
       \/ \E o \in Ids : At(o, {"append"}, "data") /\ op[o].text # <<>> /\ disk' = Appended(o, 1) /\ torn' = torn \union {op[o].path}
    /\ UNCHANGED <<temps, faults>>

Work(o) ==
    \/ fs_open_atomic_temp(o) \/ fs_atomic_write_sync_close(o) \/ fs_atomic_replace(o)
    \/ fs_fopen(o) \/ fs_write_file_and_sync(o) \/ fs_future_change(o) \/ fs_read_text_bounded(o)
    \/ fs_list_namespace(o) \/ esp32_mquickjs_fs_notify_change(o)
Next ==
    \/ \E l \in Labels : esp32_mquickjs_mount_littlefs_partition(l) \/ esp32_mquickjs_unmount_littlefs_partition(l)
    \/ esp32_mquickjs_init_fs_runtime \/ esp32_mquickjs_deinit_fs_runtime
    \/ \E o \in Ids, k \in Kinds, p \in Paths :
           \E to \in IF k = "rename" THEN Paths ELSE {p} : \E n \in IF k \in {"write", "append"} THEN {0, 2} ELSE {0} :
               fs_future_prepare_common(o, k, p, to, n)
    \/ \E o \in Ids : fs_future_start(o) \/ fs_future_cancel(o) \/ fs_future_destroy(o) \/ Work(o)
    \/ \E p \in Watched : js_fs_watch(p)
    \/ \E w \in sources : fs_change_queue_closed(w)
    \/ \E l \in Labels : fs_enter_load(Root(l))
    \/ fs_leave_load
    \/ PowerLost

Spec == Init /\ [][Next]_vars
-------------------------------------------------------------------------------
\* A text that writeText or appendText wrote is in a file whole or not at all,
\* through every failure and power loss, except where an append was cut off.
TextsWhole ==
    \A l \in Labels, p \in Paths : p \notin torn =>
        \A o \in Ids : Cardinality({i \in DOMAIN disk[l][p].text : disk[l][p].text[i] = o}) \in {0, 2}

\* The mount table and the VFS name the same partitions and agree on the
\* partition of every path; nothing changes a read-only partition, and
\* what a worker is about to change is still no mount point.
MountsKept ==
    /\ {table[s] : s \in Mounted} = vfs
    /\ \A p \in Paths : LET s == find_littlefs_mount_by_root(p)
                        IN IF s = 0 THEN ~Routed(p) ELSE Routed(p) /\ Volume(p) = table[s]
    /\ disk["framework"] = [p \in Paths |-> IF p \in {<<>>, <<"framework">>} THEN Dir ELSE NoEntry]
    /\ \A o \in Ids : Live(o) /\ Mutating(op[o].kind) =>
           ~MountPoint(op[o].path) /\ ~MountPoint(op[o].to) /\ Volume(op[o].path) = Volume(op[o].to)

\* A change is told once to each watcher it concerns, only when it was made, and
\* to every watcher that was there when the operation was captured.
ChangesTold ==
    /\ \A w \in sources : \A i, j \in DOMAIN w.told : i # j => w.told[i] # w.told[j]
    /\ \A o \in Ids : /\ \A w \in sources : o \in ToSet(w.told) /\ Live(o) => op[o].made /\ op[o].step = "completed"
                      /\ op[o].step = "completed" /\ op[o].made =>
                             \A w \in sources : w.path \in op[o].old /\ Concerns(o, w) => o \in ToSet(w.told)

\* A temporary file is that of one running write, or was left by a failure.
TempsPrivate ==
    /\ \A o \in Ids : At(o, {"write"}, "data") \/ At(o, {"write"}, "replace") => Temp(o) \in temps
    /\ faults = 0 /\ crashes = 0 =>
           temps = {Temp(o) : o \in {q \in Ids : At(q, {"write"}, "data") \/ At(q, {"write"}, "replace")}}

\* The root that load() starts from is that of the innermost running script.
LoadRootInnermost ==
    /\ loadRoot = IF loads = <<>> THEN <<>> ELSE Last(loads).set
    /\ \A i \in DOMAIN loads : loads[i].found = IF i = 1 THEN <<>> ELSE loads[i - 1].set

FileSystemSafe == TextsWhole /\ MountsKept /\ ChangesTold /\ TempsPrivate /\ LoadRootInnermost
=============================================================================
