SPECIFICATION MCSpec
CONSTANTS
  Fds = {0, 1, 2, 3, 4, 5, 6, 7}
  Conns = {c1, c2}
  Listener = listener
  MaxAsks = 2
  Apis = {"select", "poll", "kqueue", "epoll"}
  Peers = {1, 2}
  Serverfd = 0
  MAXLEN = 2
  MaxBytes <- MCMaxBytes
  Progs = {"echo"}
  Thread = {t1, t2, t3}
  MaxReaders = 2
  Rounds = 4
  Programs = {"epoll"}
INVARIANT EchoFaithful
CHECK_DEADLOCK FALSE
