----------------------------- MODULE MCPaging -----------------------------
(***************************************************************************)
(* Four levels of two-entry tables.  Ring 3 has the lower half; the upper  *)
(* half has the kernel image (a guard and one more page, which may be      *)
(* missing) and the direct map, whose device holes have tables, lack them, *)
(* or lie beside a huge page.                                              *)
(***************************************************************************)
EXTENDS Paging

CONSTANT PoolSizes

MCIndex == {0, 1}

\* Frames below 100 are the pools', the tables are 101 to 105.
MCPools == {1 .. n : n \in PoolSizes}

MCCr3 == 101

Table(f, user) == Entry(f, user, TRUE, FALSE)

Huge(f) == Pte(f, FALSE, TRUE, TRUE, TRUE)

Pair(a, b) == [i \in MCIndex |-> IF i = 0 THEN a ELSE b]

\* The boot loader may let ring 3 through the tables it makes.  The guard
\* is mapped, the page above it is not.
MCBootTables ==
    {[f \in 101 .. 105 |->
        CASE f = 101 -> Pair(NoEntry, Table(102, u))
          [] f = 102 -> Pair(Table(103, u),
                             IF u THEN NoEntry ELSE Table(105, FALSE))
          [] f = 103 -> Pair(Table(104, u), NoEntry)
          [] f = 104 -> Pair(Entry(200, FALSE, TRUE, FALSE), NoEntry)
          [] f = 105 -> Pair(NoEntry, Huge(300))] :
        u \in BOOLEAN}

MCGuard == <<1, 0, 0, 0>>

MCKernelVa == {MCGuard, <<1, 0, 0, 1>>}

MCUserVa == {va \in Va : va[1] = 0}

DevicePages == {<<1, 1, 0, 0>>, <<1, 1, 0, 1>>, <<1, 1, 1, 0>>}

MCDeviceFrame == [va \in DevicePages |-> 400 + 2 * va[3] + va[4]]

Device(pages) == [call |-> "range", pages |-> pages]

Task(code, stack) == [call |-> "image", code |-> code, stack |-> stack]

\* Two windows that share a page, and two tasks.
MCBootCalls ==
    <<Device(<< <<1, 1, 0, 1>> >>),
      Device(<< <<1, 1, 0, 1>>, <<1, 1, 1, 0>> >>),
      [call |-> "lapic", pages |-> << <<1, 1, 0, 0>> >>],
      Task(<<0, 0, 0, 0>>, <<0, 0, 0, 1>>),
      Task(<<0, 1, 0, 0>>, <<0, 1, 1, 0>>)>>

Lent(va, phys, write) == [va |-> va, phys |-> phys, write |-> write]

\* The extent, and two pages of the queue.
MCWindows ==
    {<<Lent(<<0, 0, 1, 0>>, 500, FALSE)>>,
     <<Lent(<<0, 0, 1, 1>>, 501, TRUE), Lent(<<0, 1, 0, 1>>, 502, FALSE)>>}

\* A page of each window, and the guard.
MCWatched == {MCGuard, <<0, 0, 1, 0>>, <<0, 1, 0, 1>>}


===========================================================================
