--------------------------------- MODULE Ublkd --------------------------------
(***************************************************************************)
(* The ublk device manager daemon (class UblkdServer, ublk/ublkd_main.cpp).  *)
(* Requests are handled by coroutines of one thread: a handler runs until it  *)
(* waits (for an image to open or close, a device to start or stop, or an     *)
(* image swap), and then any other handler may run.  Each action below is     *)
(* what one handler does between two such waits.  A request that is refused   *)
(* (400, 404, 409) changes nothing and is not an action.                      *)
(*                                                                            *)
(* A device is an object of class UblkDevice, named by its kernel id.         *)
(***************************************************************************)
EXTENDS Integers, FiniteSetsExt, SequencesExt

CONSTANTS Handlers,         \* handler coroutines
          Issues,           \* Issues[low][g]: the kinds of request handler g serves when
                            \* the pool is configured with the low watermark low
          Images,           \* image configs, by their realpath
          Writable,         \* the images with an upper layer
          Ids,              \* kernel device ids
          PoolLows,         \* low watermarks of the warm pool; 0: no pool
          PoolHigh,         \* its high watermark, if it is above the low one
          MaxLeases,        \* bound on the leases of one device
          MaxSlots,         \* bound: placeholders beyond it are taken not to be created
          None

ASSUME UblkdAssumption ==
    /\ Writable \subseteq Images /\ None \notin Images
    /\ Ids \subseteq Nat /\ PoolLows \subseteq Nat /\ PoolHigh \in Nat
    /\ Issues \in [PoolLows ->
            [Handlers -> SUBSET {"add", "del", "acquire", "shared", "release", "resize"}]]

VARIABLES
    devices,                \* devices_: the entries of the devices handed out, by id
    shared_,                \* the device shared by all users of an image
    adds_in_flight,         \* images with an add or acquire in progress
    pool_low,               \* pool_low_, configured before the first request
    pool_idle, pool_cap,    \* idle devices: their id and placeholder slot; and the
                            \* capacity of the vector that holds them
    free_slots, next_slot,  \* placeholder slots to use again, and the next new one
    dev,                    \* the devices of the kernel: image served and lock held
    size,                   \* virtual size of each image, 1 or (resized) 2
    h,                      \* what each handler is doing
    leases,                 \* history: leases granted to clients and not given back
    retired                 \* history: slots of leased devices that were torn down

slots == <<free_slots, next_slot, retired>>
idles == <<pool_low, pool_idle, pool_cap>>
pool == <<idles, slots>>
vars == <<devices, shared_, adds_in_flight, pool, dev, size, h, leases>>

Placeholder == <<"placeholder">>
PoolSize == 1

Idle == [pc |-> "idle", op |-> None, image |-> None, id |-> None, owed |-> None,
         slot |-> None, lock |-> None, it |-> 0]

Put(f, k, v) == [x \in DOMAIN f \cup {k} |-> IF x = k THEN v ELSE f[x]]
Without(f, k) == [x \in DOMAIN f \ {k} |-> f[x]]

\* The capacity of a vector that n elements were pushed to: it doubles when full.
Capacity(n) == IF n = 0 THEN 0 ELSE Min({2^k : k \in {j \in 0 .. n : 2^j >= n}})

Init ==
    /\ devices = <<>> /\ shared_ = <<>> /\ adds_in_flight = {}
    /\ pool_low \in PoolLows /\ retired = {}
    /\ \E n \in 0 .. pool_low :           \* prewarm_pool: n devices could be started
        /\ pool_idle = [i \in 1 .. n |-> [id |-> i - 1, slot |-> i - 1]]
        /\ pool_cap = Capacity(n)
        /\ free_slots = IF n < pool_low THEN <<n>> ELSE <<>>
        /\ next_slot = IF n < pool_low THEN n + 1 ELSE n
        /\ dev = [i \in 0 .. n - 1 |-> [image |-> Placeholder, lock |-> i]]
    /\ size = [i \in Images |-> PoolSize]
    /\ h = [g \in Handlers |-> Idle]
    /\ leases = [i \in Ids |-> 0]

-------------------------------------------------------------------------------
(***************************************************************************)
(* Pieces of the handlers.                                                  *)
(***************************************************************************)

Serves(g, op) == h[g].pc = "idle" /\ op \in Issues[pool_low][g]

\* The clients: one that holds a lease knows the device and has one request about it
\* in progress at a time.
HeldByClient(id) ==
    /\ id \in DOMAIN devices /\ leases[id] > 0
    /\ \A g \in Handlers : h[g].id # id /\ h[g].owed # id

\* The flock of a writable image (inst0/.lock), or of a placeholder, is held by the
\* UblkDevice object from start() to its destructor.
Locked(x) == (\E i \in DOMAIN dev : dev[i].lock = x) \/ (\E g \in Handlers : h[g].lock = x)

\* A plausible bug: no cross-mount lock is taken.
LockOfNone(image) == None

\* acquire_rw_image_lock: read-only images need no lock.
LockOf(image) == IF image \in Writable THEN image ELSE None

LockBusy(image) == LockOf(image) # None /\ Locked(LockOf(image))

\* A handler in UblkDevice::start for an image, with the lock taken.
Starting(op, image) ==
    [Idle EXCEPT !.pc = "start", !.op = op, !.image = image, !.lock = LockOf(image)]

\* A plausible bug: the slot taken stays on the list.
SlotsLeftAll == free_slots

\* The free slots without the one refill_pool takes.
SlotsLeft == Front(free_slots)

\* refill_pool: start one device more, on a placeholder of its own, until the pool is
\* at its low watermark; then the request is answered.  hs is what the handlers hold.
RefillOrReply(g, hs, idle, owed) ==
    IF Len(idle) >= pool_low \/ (free_slots = <<>> /\ next_slot = MaxSlots)
    THEN h' = [hs EXCEPT ![g] = Idle] /\ UNCHANGED <<free_slots, next_slot>>
    ELSE LET reuse == free_slots # <<>>
             slot == IF reuse THEN Last(free_slots) ELSE next_slot
         IN /\ h' = [hs EXCEPT ![g] = [Idle EXCEPT !.pc = "start", !.op = "refill",
                        !.image = Placeholder, !.slot = slot, !.lock = slot, !.owed = owed]]
            /\ free_slots' = IF reuse THEN SlotsLeft ELSE free_slots
            /\ next_slot' = IF reuse THEN next_slot ELSE next_slot + 1

\* pool_idle_.push_back.
PushBack(id, slot) ==
    /\ pool_idle' = Append(pool_idle, [id |-> id, slot |-> slot])
    /\ pool_cap' = Max({pool_cap, Capacity(Len(pool_idle) + 1)})
    /\ UNCHANGED pool_low

\* What the handlers hold after a push_back: iterators dangle if the vector moved.
Moved == IF Len(pool_idle) < pool_cap THEN h ELSE [g \in Handlers |-> [h[g] EXCEPT !.it = 0]]

\* The entry of a device handed out, and the lease of the client.
Register(image, id, isShared, slot) ==
    /\ devices' = Put(devices, id, [config |-> image, stopping |-> FALSE, shared |-> isShared,
                                    refcount |-> 1, slot |-> slot])
    /\ shared_' = IF isShared THEN Put(shared_, image, id) ELSE shared_
    /\ adds_in_flight' = adds_in_flight \ {image}
    /\ leases' = [leases EXCEPT ![id] = @ + 1]

\* The handler gives up: 500.
Fail(g) ==
    /\ adds_in_flight' = adds_in_flight \ {h[g].image}
    /\ h' = [h EXCEPT ![g] = Idle]

-------------------------------------------------------------------------------
(***************************************************************************)
(* add and acquire, up to the first wait.                                   *)
(***************************************************************************)

\* A plausible bug: nothing remembers that an acquire of the image is in progress.
GuardedNever(image) == adds_in_flight

\* The images in progress once an add or acquire of this one has begun.
Guarded(image) == adds_in_flight \cup {image}

handle_add(g, image) ==
    /\ Serves(g, "add")
    /\ image \notin adds_in_flight
    /\ ~LockBusy(image)
    /\ adds_in_flight' = Guarded(image)
    /\ h' = [h EXCEPT ![g] = Starting("add", image)]
    /\ UNCHANGED <<devices, shared_, pool, dev, size, leases>>

\* A plausible bug: a second user of a device is not counted.
CountedNot(id) == devices

\* The entries with one more reference to this one.
Counted(id) == [devices EXCEPT ![id].refcount = @ + 1]

\* One more reference to the device that already serves the image.
AcquireHit(g, image) ==
    /\ Serves(g, "shared")
    /\ image \in DOMAIN shared_ /\ shared_[image] \in DOMAIN devices
    /\ ~devices[shared_[image]].stopping
    /\ leases[shared_[image]] < MaxLeases
    /\ devices' = Counted(shared_[image])
    /\ leases' = [leases EXCEPT ![shared_[image]] = @ + 1]
    /\ UNCHANGED <<shared_, adds_in_flight, pool, dev, size, h>>

\* No device serves the image yet.  A refused request erases a stale mapping as well,
\* but OneSharedDevice shows that there are none.
AcquireShared(g, image) ==
    /\ Serves(g, "shared")
    /\ image \in DOMAIN shared_ => shared_[image] \notin DOMAIN devices
    /\ image \notin adds_in_flight
    /\ ~LockBusy(image)
    /\ shared_' = Without(shared_, image)
    /\ adds_in_flight' = Guarded(image)
    /\ h' = [h EXCEPT ![g] = Starting("shared", image)]
    /\ UNCHANGED <<devices, pool, dev, size, leases>>

AcquireExclusive(g, image) ==
    /\ Serves(g, "acquire")
    /\ image \notin adds_in_flight
    /\ IF pool_low > 0 /\ pool_idle # <<>>
       THEN h' = [h EXCEPT ![g] = [Idle EXCEPT !.pc = "open", !.op = "acquire", !.image = image]]
       ELSE ~LockBusy(image) /\ h' = [h EXCEPT ![g] = Starting("acquire", image)]
    /\ adds_in_flight' = Guarded(image)
    /\ UNCHANGED <<devices, shared_, pool, dev, size, leases>>

-------------------------------------------------------------------------------
(***************************************************************************)
(* UblkDevice::start, in three parts: the lock (above), the image and the    *)
(* kernel device, the queue.  Each of the last two may fail.                 *)
(***************************************************************************)

\* Ids the kernel can give out.  An id is taken to be free again when its entry is
\* gone: see the README on ids that come back while an image is still closing.
FreeIds == Ids \ (DOMAIN dev \cup DOMAIN devices)

\* The image is open and ADD_DEV has given the device its id.
StartOpened(g) ==
    /\ h[g].pc = "start" /\ FreeIds # {}
    /\ LET id == Min(FreeIds)
       IN /\ dev' = Put(dev, id, [image |-> h[g].image, lock |-> h[g].lock])
          /\ h' = [h EXCEPT ![g].pc = "ready", ![g].id = id, ![g].lock = None]
    /\ UNCHANGED <<devices, shared_, adds_in_flight, pool, size, leases>>

\* A plausible bug: a device whose start failed stays in the kernel.
CleanupFailedStartNone(g) == dev

\* cleanup_failed_start, and the destructor that drops the lock.
CleanupFailedStart(g) == IF h[g].pc = "ready" THEN Without(dev, h[g].id) ELSE dev

\* start() fails; a refill gives its slot back and the request is answered.
StartFailed(g) ==
    /\ h[g].pc \in {"start", "ready"}
    /\ dev' = CleanupFailedStart(g)
    /\ free_slots' = IF h[g].op = "refill" THEN Append(free_slots, h[g].slot) ELSE free_slots
    /\ Fail(g)
    /\ UNCHANGED <<devices, shared_, idles, next_slot, retired, size, leases>>

\* A shared acquire of a writable image is refused once the device runs.
Shareable(g) == h[g].op = "shared" => h[g].image \notin Writable

StartRejected(g) ==
    /\ h[g].pc = "ready" /\ ~Shareable(g)
    /\ adds_in_flight' = adds_in_flight \ {h[g].image}
    /\ h' = [h EXCEPT ![g].pc = "wait", ![g].op = "reject"]
    /\ UNCHANGED <<devices, shared_, pool, dev, size, leases>>

StartDone(g) ==
    /\ h[g].pc = "ready" /\ h[g].op # "refill" /\ Shareable(g)
    /\ Register(h[g].image, h[g].id, h[g].op = "shared", None)
    /\ IF h[g].op = "add" THEN h' = [h EXCEPT ![g] = Idle] /\ UNCHANGED <<free_slots, next_slot>>
       ELSE RefillOrReply(g, h, pool_idle, h[g].id)
    /\ UNCHANGED <<idles, retired, dev, size>>

\* refill_pool parks the new device and goes on.
Parked(g) ==
    /\ h[g].pc = "ready" /\ h[g].op = "refill"
    /\ PushBack(h[g].id, h[g].slot)
    /\ RefillOrReply(g, Moved, pool_idle', h[g].owed)
    /\ UNCHANGED <<devices, shared_, adds_in_flight, retired, dev, size, leases>>

-------------------------------------------------------------------------------
(***************************************************************************)
(* take_pooled: the image goes into the first idle device that fits.  The    *)
(* device stays in pool_idle_ while swap_image waits, and is taken out        *)
(* through the iterator kept across the wait.                                *)
(***************************************************************************)

\* The block size is the same everywhere, and a device of the pool, on its placeholder,
\* is writable whatever the image is: only the size decides.
Fits(image) == size[image] = PoolSize

\* Another handler's swap of the device is pending.
Swapping(id) == \E g \in Handlers : h[g].pc \in {"swap_in", "swap_out"} /\ h[g].id = id

OpenFailed(g) ==
    /\ h[g].pc = "open"
    /\ Fail(g)
    /\ UNCHANGED <<devices, shared_, pool, dev, size, leases>>

\* No idle device fits: the image is closed ...
NoneFits(g) ==
    /\ h[g].pc = "open"
    /\ pool_idle = <<>> \/ ~Fits(h[g].image)
    /\ h' = [h EXCEPT ![g].pc = "anew"]
    /\ UNCHANGED <<devices, shared_, adds_in_flight, pool, dev, size, leases>>

\* ... and a device is started for it.
StartAnew(g) ==
    /\ h[g].pc = "anew"
    /\ IF LockBusy(h[g].image) THEN Fail(g)
       ELSE h' = [h EXCEPT ![g] = Starting("acquire", h[g].image)] /\ UNCHANGED adds_in_flight
    /\ UNCHANGED <<devices, shared_, pool, dev, size, leases>>

\* What it->slot and pool_idle_.erase(it) may yield: the slot and the idle devices left.
\* An iterator is the place it points to.  Past the end, or in storage that was given
\* up, both are undefined: any slot, and any device or none lost.
Taken(it) ==
    IF it \in DOMAIN pool_idle
    THEN {[slot |-> pool_idle[it].slot, idle |-> RemoveAt(pool_idle, it)]}
    ELSE {[slot |-> k, idle |-> p] : k \in 0 .. next_slot - 1,
             p \in {pool_idle} \cup {RemoveAt(pool_idle, i) : i \in DOMAIN pool_idle}}

\* A device that cannot be swapped is taken from the pool and dropped.
Drop(g, id, it) ==
    /\ \E t \in Taken(it) :
          /\ pool_idle' = t.idle
          /\ h' = [h EXCEPT ![g] = [@ EXCEPT !.pc = "wait", !.op = "drop", !.id = id,
                                            !.slot = t.slot, !.it = 0]]
    /\ UNCHANGED <<devices, shared_, adds_in_flight, pool_low, pool_cap, slots, dev, size, leases>>

\* swap_image posts its request and waits, or fails at once if another one is pending.
PostSwapIn(g) ==
    /\ h[g].pc = "open" /\ pool_idle # <<>> /\ Fits(h[g].image)
    /\ LET id == Head(pool_idle).id
       IN IF Swapping(id) THEN Drop(g, id, 1)
          ELSE /\ h' = [h EXCEPT ![g].pc = "swap_in", ![g].id = id, ![g].it = 1]
               /\ UNCHANGED <<devices, shared_, adds_in_flight, pool, dev, size, leases>>

\* It times out, or the device has stopped.
SwapInFailed(g) == h[g].pc = "swap_in" /\ Drop(g, h[g].id, h[g].it)

\* The queue thread took the new image.
SwappedIn(g) ==
    /\ h[g].pc = "swap_in" /\ h[g].id \in DOMAIN dev
    /\ dev' = [dev EXCEPT ![h[g].id].image = h[g].image]
    /\ \E t \in Taken(h[g].it) :
          /\ pool_idle' = t.idle
          /\ h' = [h EXCEPT ![g] = [@ EXCEPT !.pc = "swapped", !.slot = t.slot, !.it = 0]]
    /\ UNCHANGED <<devices, shared_, adds_in_flight, pool_low, pool_cap, slots, size, leases>>

\* The placeholder image is closed, and the device is handed out.
HandedOut(g) ==
    /\ h[g].pc = "swapped"
    /\ Register(h[g].image, h[g].id, FALSE, h[g].slot)
    /\ RefillOrReply(g, h, pool_idle, h[g].id)
    /\ UNCHANGED <<idles, retired, dev, size>>

-------------------------------------------------------------------------------
(***************************************************************************)
(* del, release and resize.                                                 *)
(***************************************************************************)

\* stopping = true; stop(); and the wait for the queue to exit.
Stopped(g, op, id, refs) ==
    /\ devices' = [devices EXCEPT ![id].stopping = TRUE, ![id].refcount = refs]
    /\ h' = [h EXCEPT ![g] = [Idle EXCEPT !.pc = "wait", !.op = op, !.id = id]]

\* A plausible bug: del takes a shared device from its other holders.
DeletableShared(id) == ~devices[id].stopping

Deletable(id) == ~devices[id].shared /\ ~devices[id].stopping

handle_del(g, id) ==
    /\ Serves(g, "del") /\ HeldByClient(id) /\ Deletable(id)
    /\ Stopped(g, "del", id, devices[id].refcount)
    /\ leases' = [leases EXCEPT ![id] = @ - 1]
    /\ UNCHANGED <<shared_, adds_in_flight, pool, dev, size>>

\* Not the last reference.
ReleaseOne(g, id) ==
    /\ Serves(g, "release") /\ HeldByClient(id)
    /\ ~devices[id].stopping /\ devices[id].refcount > 1
    /\ devices' = [devices EXCEPT ![id].refcount = @ - 1]
    /\ leases' = [leases EXCEPT ![id] = @ - 1]
    /\ UNCHANGED <<shared_, adds_in_flight, pool, dev, size, h>>

\* shared_ once the device is no longer shared.
Unshared(id) == IF devices[id].shared THEN Without(shared_, devices[id].config) ELSE shared_

RoomInPool == Len(pool_idle) < Max({PoolHigh, pool_low})

\* The last reference to a device that goes away: not from the pool, or the pool is
\* full, or it is still mounted or cannot be flushed.
ReleaseLast(g, id) ==
    /\ Serves(g, "release") /\ HeldByClient(id)
    /\ ~devices[id].stopping /\ devices[id].refcount = 1
    /\ shared_' = Unshared(id)
    /\ Stopped(g, "release", id, 0)
    /\ leases' = [leases EXCEPT ![id] = @ - 1]
    /\ UNCHANGED <<adds_in_flight, pool, dev, size>>

\* return_to_pool, up to the opening of the placeholder image.
ReleaseToPool(g, id) ==
    /\ Serves(g, "release") /\ HeldByClient(id)
    /\ ~devices[id].stopping /\ devices[id].refcount = 1
    /\ devices[id].slot # None /\ RoomInPool
    /\ devices' = [devices EXCEPT ![id].refcount = 0]
    /\ h' = [h EXCEPT ![g] = [Idle EXCEPT !.pc = "placeholder", !.op = "release", !.id = id]]
    /\ leases' = [leases EXCEPT ![id] = @ - 1]
    /\ UNCHANGED <<shared_, adds_in_flight, pool, dev, size>>

PostSwapOut(g) ==
    /\ h[g].pc = "placeholder"
    /\ h' = [h EXCEPT ![g].pc = "swap_out"]
    /\ UNCHANGED <<devices, shared_, adds_in_flight, pool, dev, size, leases>>

\* The placeholder could not be opened, or not be swapped in.
RecycleFailed(g) ==
    /\ h[g].pc \in {"placeholder", "swap_out"}
    /\ Stopped(g, "release", h[g].id, 0)
    /\ UNCHANGED <<shared_, adds_in_flight, pool, dev, size, leases>>

\* A plausible bug: the device is parked with its tenant's image.
RecycledAsIs(id) == dev

\* A plausible bug: nothing is put in the place of the tenant's image.
RecycledEmpty(id) == [dev EXCEPT ![id].image = None]

\* The device serves the placeholder again.
Recycled(id) == [dev EXCEPT ![id].image = Placeholder]

SwappedOut(g) ==
    /\ h[g].pc = "swap_out"
    /\ dev' = Recycled(h[g].id)
    /\ h' = [h EXCEPT ![g].pc = "retire"]
    /\ UNCHANGED <<devices, shared_, adds_in_flight, pool, size, leases>>

\* The tenant's image is closed, and the device is parked.
Returned(g) ==
    /\ h[g].pc = "retire"
    /\ PushBack(h[g].id, devices[h[g].id].slot)
    /\ devices' = Without(devices, h[g].id)
    /\ h' = [Moved EXCEPT ![g] = Idle]
    /\ UNCHANGED <<shared_, adds_in_flight, slots, dev, size, leases>>

\* A plausible bug: the shared acquire that is refused does not stop its device.
StopsNotRejected(op) == op \in {"del", "release", "drop"}

\* The handlers that call stop() before wait(): a queue exits once it is stopped.
Stops(op) == op \in {"del", "release", "drop", "reject"}

\* The queue has exited: teardown deletes the kernel device and closes the image; the
\* lock goes with the object, when the image is closed.
TornDown(g) ==
    /\ h[g].pc = "wait" /\ Stops(h[g].op)
    /\ h' = [h EXCEPT ![g].pc = "close",
                      ![g].lock = IF h[g].id \in DOMAIN dev THEN dev[h[g].id].lock ELSE None]
    /\ dev' = Without(dev, h[g].id)
    /\ UNCHANGED <<devices, shared_, adds_in_flight, pool, size, leases>>

\* The entry goes.  The slot of a device that came from the pool is not used again.
Closed(g) ==
    /\ h[g].pc = "close" /\ h[g].op \in {"del", "release"}
    /\ devices' = Without(devices, h[g].id)
    /\ retired' = retired \cup ({devices[h[g].id].slot} \ {None})
    /\ h' = [h EXCEPT ![g] = Idle]
    /\ UNCHANGED <<shared_, adds_in_flight, idles, free_slots, next_slot, dev, size, leases>>

\* A refused shared acquire has no entry.
Rejected(g) ==
    /\ h[g].pc = "close" /\ h[g].op = "reject"
    /\ h' = [h EXCEPT ![g] = Idle]
    /\ UNCHANGED <<devices, shared_, adds_in_flight, pool, dev, size, leases>>

\* take_pooled has dropped a device: its slot is free, the image is closed and the
\* acquire goes on.
Dropped(g) ==
    /\ h[g].pc = "close" /\ h[g].op = "drop"
    /\ free_slots' = Append(free_slots, h[g].slot)
    /\ h' = [h EXCEPT ![g] = [Idle EXCEPT !.pc = "anew", !.op = "acquire", !.image = h[g].image]]
    /\ UNCHANGED <<devices, shared_, adds_in_flight, idles, next_slot, retired, dev, size, leases>>

\* resize: the image first, which waits, and then the kernel (its size of the device is
\* not modelled).
handle_resize(g, id) ==
    /\ Serves(g, "resize") /\ HeldByClient(id)
    /\ ~devices[id].stopping /\ dev[id].image \in Writable /\ size[dev[id].image] = PoolSize
    /\ h' = [h EXCEPT ![g] = [Idle EXCEPT !.pc = "resize", !.id = id]]
    /\ UNCHANGED <<devices, shared_, adds_in_flight, pool, dev, size, leases>>

\* The image is grown, or not.
Resized(g) ==
    /\ h[g].pc = "resize"
    /\ size' \in {size, [size EXCEPT ![dev[h[g].id].image] = PoolSize + 1]}
    /\ h' = [h EXCEPT ![g] = Idle]
    /\ UNCHANGED <<devices, shared_, adds_in_flight, pool, dev, leases>>

-------------------------------------------------------------------------------
\* What a waiting handler does next.
Step(g) ==
    \/ StartOpened(g) \/ StartFailed(g) \/ StartRejected(g) \/ StartDone(g) \/ Parked(g)
    \/ OpenFailed(g) \/ NoneFits(g) \/ StartAnew(g)
    \/ PostSwapIn(g) \/ SwapInFailed(g) \/ SwappedIn(g) \/ HandedOut(g)
    \/ PostSwapOut(g) \/ RecycleFailed(g) \/ SwappedOut(g) \/ Returned(g)
    \/ TornDown(g) \/ Closed(g) \/ Rejected(g) \/ Dropped(g) \/ Resized(g)

\* A request arrives.
Request(g) ==
    \/ \E image \in Images :
        handle_add(g, image) \/ AcquireHit(g, image) \/ AcquireShared(g, image)
          \/ AcquireExclusive(g, image)
    \/ \E id \in Ids :
        handle_del(g, id) \/ ReleaseOne(g, id) \/ ReleaseLast(g, id) \/ ReleaseToPool(g, id)
          \/ handle_resize(g, id)

Next == \E g \in Handlers : Step(g) \/ Request(g)

Spec == Init /\ [][Next]_vars

\* Opening, starting, stopping, closing and swapping all end: the code bounds the swap,
\* and takes the others to.
FairSpec == Spec /\ \A g \in Handlers : WF_vars(Step(g))

-------------------------------------------------------------------------------
\* devices_, shared_, adds_in_flight_ and the kernel's devices only name images, ids and
\* placeholder slots that exist, whichever handlers interleave.
TypeOK ==
    /\ DOMAIN devices \subseteq Ids /\ DOMAIN dev \subseteq Ids
    /\ \A id \in DOMAIN devices :
        devices[id] \in [config : Images, stopping : BOOLEAN, shared : BOOLEAN,
                         refcount : 0 .. MaxLeases, slot : {None} \cup 0 .. next_slot - 1]
    /\ DOMAIN shared_ \subseteq Images /\ \A i \in DOMAIN shared_ : shared_[i] \in Ids
    /\ adds_in_flight \subseteq Images
    /\ \A id \in DOMAIN dev :
        dev[id] \in [image : Images \cup {Placeholder},
                     lock : Images \cup {None} \cup 0 .. next_slot - 1]
    /\ pool_low \in PoolLows /\ Len(pool_idle) <= pool_cap
    /\ \A k \in DOMAIN pool_idle : pool_idle[k] \in [id : Ids, slot : 0 .. next_slot - 1]
    /\ size \in [Images -> PoolSize .. PoolSize + 1]
    /\ leases \in [Ids -> 0 .. MaxLeases]

(***************************************************************************)
(* A device a client holds a lease on is running and serves the image it was *)
(* asked for: no del, release, refused request or hot swap of another client *)
(* takes it away.                                                           *)
(***************************************************************************)
LeasedIsServed ==
    \A id \in Ids : leases[id] > 0 =>
        /\ id \in DOMAIN devices /\ ~devices[id].stopping
        /\ id \in DOMAIN dev /\ dev[id].image = devices[id].config

\* The reference count of an entry is the number of leases clients hold on it.
RefcountExact ==
    \A id \in DOMAIN devices : ~devices[id].stopping => devices[id].refcount = leases[id]

(***************************************************************************)
(* "shared -> reuse one device per image": the map of shared devices names   *)
(* exactly the running shared devices, each under its own image.             *)
(***************************************************************************)
OneSharedDevice ==
    /\ \A image \in DOMAIN shared_ :
        shared_[image] \in DOMAIN devices /\ devices[shared_[image]].config = image
    /\ \A id \in DOMAIN devices : devices[id].shared /\ ~devices[id].stopping =>
        devices[id].config \in DOMAIN shared_ /\ shared_[devices[id].config] = id

ServesForWriting(id, image) == dev[id].image = image /\ image \in Writable

(***************************************************************************)
(* "concurrent RW mounts would corrupt the upper layer": no two devices       *)
(* serve the same writable image, when neither got it by a hot swap.          *)
(***************************************************************************)
CreatedOnce ==
    \A i, j \in DOMAIN dev : \A image \in Images :
        i # j /\ ServesForWriting(i, image) /\ ServesForWriting(j, image)
          => {dev[i].lock, dev[j].lock} \cap 0 .. next_slot - 1 # {}

(***************************************************************************)
(* "the same-image RW race is already closed by the inst0 flock": no two       *)
(* devices serve the same writable image.                                      *)
(***************************************************************************)
OneWriter ==
    \A i, j \in DOMAIN dev : \A image \in Images :
        ServesForWriting(i, image) /\ ServesForWriting(j, image) => i = j

(***************************************************************************)
(* No two devices hold one lock, and no free placeholder slot is in use: each  *)
(* pooled device has placeholder files of its own.                             *)
(***************************************************************************)
SlotsDistinct ==
    /\ \A i, j \in DOMAIN dev : dev[i].lock = dev[j].lock => i = j \/ dev[i].lock = None
    /\ \A k \in DOMAIN free_slots : ~Locked(free_slots[k])

(***************************************************************************)
(* An idle device of the pool is running on its own placeholder, with the      *)
(* image of its last tenant gone, and no client holds it.                       *)
(***************************************************************************)
PoolClean ==
    \A k \in DOMAIN pool_idle : LET id == pool_idle[k].id IN
        /\ id \in DOMAIN dev /\ dev[id].image = Placeholder /\ dev[id].lock = pool_idle[k].slot
        /\ id \notin DOMAIN devices /\ leases[id] = 0

(***************************************************************************)
(* Every kernel device has an owner, every image in progress a handler, every  *)
(* entry a client or a handler that is removing it, and every placeholder slot  *)
(* is free or its lock is held, unless its device was handed out and then torn   *)
(* down by del or release, which never give the slot back: no request,           *)
(* whichever of its steps fails, leaves anything else behind.                    *)
(***************************************************************************)
NothingLeaks ==
    /\ \A id \in DOMAIN dev :
        \/ id \in DOMAIN devices \/ \E k \in DOMAIN pool_idle : pool_idle[k].id = id
        \/ \E g \in Handlers : h[g].id = id
    /\ \A image \in adds_in_flight : \E g \in Handlers : h[g].image = image
    /\ \A id \in DOMAIN devices : leases[id] > 0 \/ \E g \in Handlers : h[g].id = id
    /\ \A k \in 0 .. next_slot - 1 : k \in ToSet(free_slots) \/ Locked(k) \/ k \in retired

(***************************************************************************)
(* Every request is answered, whatever the others do and whichever step fails.     *)
(***************************************************************************)
RequestsAnswered == \A g \in Handlers : h[g].pc # "idle" ~> h[g].pc = "idle"
===============================================================================
