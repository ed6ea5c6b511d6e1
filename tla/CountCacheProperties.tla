------------------------ MODULE CountCacheProperties ------------------------
EXTENDS CountCache

\* A count that is given out was right at some moment less than one time to
\* live and one load ago, although no write invalidates it: callers may join a
\* load that began before the write they made.
CountsAreRecent ==
  trueAt[answered.filter][answered.value] + CountTtl + MaxLoad >= answered.at
=============================================================================
