----------------------------- MODULE LeafTable ------------------------------
(***************************************************************************)
(* The leaves that the JABCInstall* functions give to JS, by file.  Leaves *)
(* that a macro makes for every lane are here once for each way of reading *)
(* an element.  io._mmap, io._munmap and io._ram are in module Maps,       *)
(* pol's in Pol, pup's in Pup; a leaf that takes no argument and cannot    *)
(* fail (ron._now, io.getpid) is left out.                                 *)
(***************************************************************************)
EXTENDS SystemLeaves

JABCInstallCfold == [
  count |-> JABCcfoldCount, commits |-> JABCcfoldCommits, next |-> JABCcfoldNext,
  merge |-> JABCcfoldMerge, alive |-> JABCcfoldAlive, produce |-> JABCcfoldProduce,
  blame |-> JABCcfoldBlame, itermem |-> JABCcfoldIterMem, step |-> JABCcfoldStep,
  emitdiff |-> JABCcfoldEmitDiff, emitfull |-> JABCcfoldEmitFull]

JABCInstallCodec == [
  encode |-> JABCronEncode, decode |-> JABCronDecode, ofMs |-> JABCronOfMs, date |-> JABCronDate,
  hexEncode |-> JABChexEncode, hexEncodeInto |-> JABChexEncodeInto, hexDecode |-> JABChexDecode,
  sha1 |-> JABCsha1, sha256 |-> JABCsha256]

JABCInstallDirc == [read |-> JABCdircRead]

JABCInstallFsw == [init |-> JABCFswInit, dir |-> JABCFswDir, drain |-> JABCFswDrain,
  close |-> JABCFswClose]

JABCInstallGit == [open |-> JABCgitOpen, get |-> jgit_read, get_safe |-> jgit_read,
  tree_diff |-> JABCgitTreeDiff, close |-> JABCgitClose]

JABCInstallHash == [
  putNum |-> HashPut(HashRdNum \o HashRdNum), getNum |-> HashGet(HashRdNum), delNum |-> HashDel(HashRdNum),
  putU64 |-> HashPut(HashRdU64), getU64 |-> HashGet(HashRdU64), delU64 |-> HashDel(HashRdU64),
  putPN |-> HashPut(HashRdPN), putPB |-> HashPut(HashRdPB), getPB |-> HashGet(HashRdPB),
  putBlob |-> HashPut(HashRdBlob), getBlob |-> HashGet(HashRdBlob), delBlob |-> HashDel(HashRdBlob)]

JABCInstallHeap == [
  pushNum |-> HeapPush(HeapNum), pushU64 |-> HeapPush(HeapU64), pushPN |-> HeapPush(HeapPN),
  pushPB |-> HeapPush(HeapPB), pushBlob |-> HeapPush(HeapBlob), pop |-> HeapPop, feed |-> HeapFeed]

JABCInstallHit == [sort |-> SortLeaf, merge |-> HitRun, isect |-> HitRun]

JABCInstallHttp == [drain |-> JABChttpDrain, feed |-> JABChttpFeed]

JABCInstallHunk == [
  feed |-> JABChunkFeed, dogenize |-> JABChunkDogenize, next |-> JABChunkNext, uri |-> JABChunkUri,
  text |-> JABChunkText, toks |-> JABChunkToks, verb |-> JABChunkVerb, time |-> JABChunkTime,
  render |-> JABChunkRender]

JABCInstallIgno == [open |-> JABCignoOpen, match |-> JABCignoMatch, close |-> JABCignoClose]

JABCInstallIndex == [findge |-> FindGe, seekrange |-> SeekRange, compact |-> Compact]

JABCInstallIo == [
  open |-> JABCioOpen, close |-> JABCioClose, sync |-> JABCioSync, size |-> JABCioSize,
  resize |-> JABCioResize, lock |-> JABCioLock, unlock |-> JABCioUnlock, stat |-> JABCioStat,
  lstat |-> JABCioLStat, readlink |-> JABCioReadLink, realpath |-> JABCioRealPath,
  symlink |-> JABCioSymLink, chmod |-> JABCioChmod, setMtime |-> JABCioSetMtime,
  read |-> JABCioRead, write |-> JABCioWrite, msync |-> JABCioMsync, truncate |-> JABCioTruncate,
  unlink |-> JABCioUnlink, rename |-> JABCioRename, mkdir |-> JABCioMkdir, rmdir |-> JABCioRmdir,
  spawn |-> JABCioSpawn, spawnFds |-> JABCioSpawnFds, reap |-> JABCioReap, fork |-> JABCioFork,
  exit |-> JABCioExit, readdir |-> JABCioReaddir, isatty |-> JABCioIsatty, cwd |-> JABCioCwd,
  chdir |-> JABCioChdir, getenv |-> JABCioGetenv, log |-> JABCioLog]

JABCInstallNet == [
  listen |-> JABCNetListen, connect |-> JABCNetConnect, accept |-> JABCNetAccept,
  recv |-> JABCNetRecv, send |-> JABCNetSend, shutwr |-> JABCNetShutwr, close |-> JABCNetClose,
  dgramBind |-> JABCDgramBind, dgramRecv |-> JABCDgramRecv, dgramSend |-> JABCDgramSend]

JABCInstallPack == [
  repack |-> JABCpackRepack, tree_next |-> JABCgitTreeNext, parse_commit |-> JABCgitParseCommit,
  header |-> JABCpackHeader, count |-> JABCpackCount, feed |-> JABCpackFeed, next |-> JABCpackNext,
  type |-> JABCpackType, size |-> JABCpackSize, baseoff |-> JABCpackBaseOff, ref |-> JABCpackRef,
  inflate |-> JABCpackInflate, resolve |-> JABCpackResolve, scan |-> JABCpackScan,
  feed_emit |-> JABCpackFeedEmit, delt_apply |-> JABCdeltApply, delt_encode |-> JABCdeltEncode]

JABCInstallTok == [parse_into |-> JABCtokParseInto]

JABCInstallTty == [raw |-> JABCttyRaw, cook |-> JABCttyCook, size |-> JABCttySize,
  openpty |-> JABCttyOpenPty, setSize |-> JABCttySetSize]

JABCInstallUlog == [
  feed |-> JABCulogFeed, open |-> JABCulogOpen, append |-> JABCulogAppend, count |-> JABCulogCount,
  rowUri |-> JABCulogRowUri, rowTime |-> JABCulogRowTime, close |-> JABCulogClose,
  next |-> JABCulogNext, time |-> JABCulogTime, verb |-> JABCulogVerb, uri |-> JABCulogUri,
  seekVerb |-> JABCulogSeekVerb, seekTime |-> JABCulogSeekTime, seekURI |-> JABCulogSeekURI]

JABCInstallUri == [parse |-> JABCuriParse, make |-> JABCuriMake, esc |-> JABCuriEsc,
  unesc |-> JABCuriUnesc]

JABCInstallUtf8 == [encodeInto |-> JABCutf8EncodeInto, Decode |-> JABCutf8Decode]

JABCInstallZip == [deflate |-> JABCzipDeflate, inflate |-> JABCzipInflate]

Surface == [
  cfold |-> JABCInstallCfold, codec |-> JABCInstallCodec, dirc |-> JABCInstallDirc,
  fsw |-> JABCInstallFsw, git |-> JABCInstallGit, hash |-> JABCInstallHash, heap |-> JABCInstallHeap,
  hit |-> JABCInstallHit, http |-> JABCInstallHttp, hunk |-> JABCInstallHunk, igno |-> JABCInstallIgno,
  index |-> JABCInstallIndex, io |-> JABCInstallIo, net |-> JABCInstallNet, pack |-> JABCInstallPack,
  tok |-> JABCInstallTok, tty |-> JABCInstallTty, ulog |-> JABCInstallUlog, uri |-> JABCInstallUri,
  utf8 |-> JABCInstallUtf8, zip |-> JABCInstallZip]

=============================================================================
