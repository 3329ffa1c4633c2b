------------------------------- MODULE MCFat -------------------------------
(* Fat on a drive of 30 sectors with a partition of 18, eight FAT entries   *)
(* in two sectors, and clusters of two sectors of two bytes.                *)
EXTENDS Fat

\* Clusters 2 and 3 are a directory and one file, 4 6 5 a file in three pieces and
\* 7, which holds the last sector of the partition on FAT16, another.  Cluster 9 is
\* behind the partition: a damaged entry.
MCDiskFat == [k \in 0 .. 7 |-> CASE k = 4 -> 6 [] k = 6 -> 5 [] OTHER -> 4095]

File(cluster, size) == [cluster |-> cluster, file_size |-> size]

MCEntries == <<File(4, 10), File(3, 4), File(7, 3), File(0, 0), File(9, 2)>>

\* Volumes of three, four, six and seven clusters: on both sides of each limit.
Formatted(format, small, large, ext, name) ==
    [format |-> format, total_sectors |-> small, large_sector_count |-> large,
     sectors_per_fat_ext |-> ext, system_identifier |-> name,
     root_directory_count |-> IF format = 32 THEN 0 ELSE 4, root_dir_cluster |-> 2,
     gpt |-> TRUE, esp |-> TRUE, overflow_checks |-> FALSE, fat_in_mem |-> FALSE]

Fat16 == Formatted(16, 18, 0, 41, "FAT16")
Good == {Formatted(12, 12, 0, 41, "FAT12"), Fat16, Formatted(32, 0, 18, 2, "FAT32")}

\* A root directory of half a cluster, and ones whose size is 2^16 or more, which is
\* taken for no sectors: the FAT16 of 16 sectors is mounted all the same.
Roots == {[Fat16 EXCEPT !.root_directory_count = 2]} \union
         {[Formatted(16, small, 0, 41, "FAT16") EXCEPT !.root_directory_count = 7, !.overflow_checks = checks] :
            small \in {16, 18}, checks \in BOOLEAN}

\* Not to be mounted; and FAT16 with its sectors counted in large_sector_count.
Odd == {Formatted(16, 14, 0, 41, "FAT16"), Formatted(16, 18, 0, 41, "other"), Formatted(32, 16, 0, 2, "FAT32"),
        Formatted(32, 0, 16, 2, "FAT32"), [Fat16 EXCEPT !.gpt = FALSE], [Fat16 EXCEPT !.esp = FALSE]}
       \union {[Formatted(16, 0, 18, ext, "FAT16") EXCEPT !.overflow_checks = checks] :
                 ext \in {1, 41, 62, 63}, checks \in BOOLEAN}

MCVolumes == {[v EXCEPT !.fat_in_mem = mem] : v \in Good, mem \in BOOLEAN} \union Odd \union Roots

\* "readme", whose short name is the same in capitals, and "longer name".
MCNames == {<<"readme">>, <<"longer ", "name">>}
MCToUpper == [n \in MCNames |-> IF n = <<"readme">> THEN "README" ELSE "LONGER NAME"]

Long(p)  == [kind |-> "long", part |-> p]
Short(s) == [kind |-> "file", short |-> s]

\* The entries that can follow one another in a directory: whole long names, the
\* last part first, directly before their entry, and nothing behind the end.
Groups == {<<>>, <<[kind |-> "unused"]>>, <<Short("README")>>, <<Short("OTHER")>>, <<Short("R\\xC9SUM\\xC9")>>,
           <<Long("readme"), Short("README")>>, <<Long("\\uD800"), Short("README")>>,
           <<Long("name"), Long("longer "), Short("LONGER~1")>>}

Closing == {<<>>, <<Short("README")>>, <<Short("R\\xC9SUM\\xC9")>>, <<Long("readme"), Short("README")>>}

Ended(d) == SubSeq(d \o [i \in 1 .. ClusterEntries |-> [kind |-> "end"]], 1, ClusterEntries)

MCDirectories == {Ended(a \o b) : a \in Groups, b \in Closing}
MCStrays == {Ended(<<>>), Ended(<<Short("OTHER"), Short("README")>>)}

MCNotUtf8 == {"R\\xC9SUM\\xC9"}
MCNotUtf16 == {<<"\\uD800">>}
MCSubDirs == {2, 9}
=============================================================================
