----------------------------- MODULE MCUserMode -----------------------------
EXTENDS UserMode

MCLetters == <<"p", "q", "f", "x", "C", "s">>
MCDigits == <<"0", "1", "2", "3", "4", "5", "6">>

\* main() of usertests.c, each test from a fresh image, and the programs.
MCTests ==
  {iputtest, exitiputtest, openiputtest, dirtest, subdir, fourteen, rmdot, dirfile, iref,
   opentest, writetest, writetest1, createtest, bigwrite, bigfile, bigdir, unlinkread, linktest,
   sharedfd, fourfiles, createdelete, concreate, linkunlink,
   pipe1, preempt, exitwait, forktest, mem, sbrktest, validatetest, argptest, uio,
   bigargtest, exectest, stressfs[0], zombie, init} \union shells
=============================================================================
